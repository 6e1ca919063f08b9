SPECIFICATION DecoderSpec
INVARIANT
    DecodesAsDocumented
