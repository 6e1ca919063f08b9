SPECIFICATION DecoderSpec
INVARIANTS
    OnlyLiveTypesDecoded
    LiveTestsAreDisjoint
    FieldsRebuild
