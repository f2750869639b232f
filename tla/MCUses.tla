------------------------------- MODULE MCUses -------------------------------
EXTENDS RibUses

S32d == AsDefault(Number("s32"))
F64d == AsDefault(Number("f64"))
U8 == Number("u8")
S32 == Number("s32")
Fields(f, g) == <<Is("f", f), Is("g", g)>>

Pool ==
  {U8, S32, S32d, F64d, Text, ListT(U8), ListT(Unknown), ListT(S32d), ListT(Text),
   OptionT(Unknown), OptionT(U8), OptionT(S32d), RangeT(U8, <<>>), RangeT(S32d, <<S32d>>),
   RecordT(<<Is("f", U8)>>), RecordT(<<Is("f", S32d)>>), RecordT(<<Is("g", Text)>>),
   RecordT(Fields(S32d, Text)), RecordT(Fields(Unknown, U8)),
   RecordT(<<Is("f", RecordT(<<Is("p", S32d)>>))>>),
   ResultT(<<U8>>, <<Unknown>>), ResultT(<<>>, <<Text>>), ResultT(<<S32d>>, <<Text>>),
   TupleT(<<U8, Text>>), TupleT(<<S32d, Text>>), TupleT(<<U8>>),
   VariantT(<<Is("a", U8), Bare("b")>>), VariantT(<<Is("a", S32d), Bare("b")>>),
   VariantT(<<Is("a", U8), Bare("c")>>),
   EnumT(<<Bare("a"), Bare("b")>>), FlagsT(<<Bare("a"), Bare("b")>>), FlagsT(<<Bare("b")>>),
   RecordT(<<Is("f", Alternatives(<<U8, S32d>>))>>)}

\* Up to three uses; the same number is not both stated and only the default.
Threes ==
  {S \in UNION {{{a, b, c} : b \in Pool, c \in Pool} : a \in Pool} : ~ {S32, S32d} \subseteq S}

\* A literal of the default type, the annotation of its binding, a parameter.
Annotated == {{S32, S32d, U8}}

\* The arms of a match, one of which already has alternatives.
ArmWithAlternatives ==
  {{RecordT(<<Is("f", RecordT(<<Is("p", S32d)>>)), Is("g", Text)>>),
    Alternatives(<<RecordT(<<Is("f", RecordT(<<Is("p", U8)>>))>>), RecordT(<<Is("g", Text)>>)>>)}}
===============================================================================
