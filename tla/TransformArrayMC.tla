--------------------------- MODULE TransformArrayMC ---------------------------
(* Documents in the three formats, whole, cut off, and with a symbol lost.  *)
EXTENDS TransformArray, ClientHints

GhevDocuments ==
  { Document(<<StringMember("architecture", "ARCHITECTURE", <<"x">>),
               BrandMember("brands", "BRANDS",
                 <<GhevBrand(<<"A">>, <<"9">>),
                   GhevBrandWithoutVersion(<<"B">>)>>),
               MobileMember("true")>>),
    Document(<<NullMember("model"),
               StringMember("platform", "PLATFORM",
                            <<"P", Escape, Quote, "Q">>),
               OtherMember("other", <<"{", Quote, "}", Quote, "[", "}">>),
               StringMember("platformVersion", "PLATFORMVERSION", <<>>)>>),
    Document(<<OtherMember("other", <<"[", "[", "]", Quote, "]", Quote, "]">>),
               BrandMember("brands", "BRANDS", <<>>),
               OtherMember("other", <<"0">>),
               BrandMember("fullVersionList", "FULLVERSIONLIST",
                 <<GhevBrand(NoName, <<"8">>), GhevBrand(<<"A">>, <<"9">>)>>),
               MobileMember("false")>>),
    Document(<<StringMember("bitness", "BITNESS", <<"64">>),
               BrandMember("brands", "BRANDS", <<GhevBrand(NoName, <<"8">>)>>),
               StringMember("bitness", "BITNESS", <<"32">>)>>),
    Document(<<>>) }

SuaDocuments ==
  { Document(<<BrandMember("browsers", "FULLVERSIONLIST",
                 <<SuaBrand(<<"A">>, <<"1", "0">>), SuaBrand(<<"B">>, <<"2">>)>>),
               PlatformMember(<<"P">>, <<"7">>),
               MobileMember("1")>>),
    Document(<<OtherMember("platformVersion", <<Quote, "x", Quote>>),
               PlatformMember(<<"P">>, <<>>),
               StringMember("model", "MODEL", <<"m", Escape, Quote>>),
               MobileMember("0")>>),
    Document(<<BrandMember("browsers", "FULLVERSIONLIST",
                 <<SuaBrand(NoName, <<"1">>), SuaBrand(<<"B">>, <<"2">>)>>),
               NullMember("bitness")>>) }

Prefixes(d) == {SubSeq(d.text, 1, n) : n \in 0 .. Len(d.text) - 1}
Damages(d) == {SubSeq(d.text, 1, n - 1) \o SubSeq(d.text, n + 1, Len(d.text)) :
                 n \in 1 .. Len(d.text)}

Input(k, t, d, f, n, c, twice) ==
  [kind |-> k, text |-> t, pairs |-> d.pairs, form |-> f,
   length |-> n, capacity |-> c, byTwo |-> twice]

Whole(k, d, twice) ==
  {Input(k, d.text, d, "whole", n, c, twice) :
     n \in {0, 5, 9, 12, 20, 60}, c \in {0, 2, 8}}
Parts(k, d) ==
  {Input(k, t, d, "prefix", n, 8, FALSE) : t \in Prefixes(d), n \in {12, 60}}
  \cup {Input(k, t, d, "damaged", n, 8, TRUE) :
          t \in Damages(d), n \in {12, 60}}

MCInputs ==
  UNION {UNION {Whole("ghev", d, twice) : twice \in BOOLEAN}
           \cup Whole("base64", d, TRUE) \cup Parts("ghev", d) :
           d \in GhevDocuments}
  \cup UNION {UNION {Whole("sua", d, twice) : twice \in BOOLEAN}
                \cup Parts("sua", d) : d \in SuaDocuments}
  \cup {Input("broken64", <<>>, Document(<<>>), "damaged", 12, 8, TRUE)}

\* Callers of the C function for base64 who allocate what written says.
Base64ByWritten == UNION {Whole("base64", d, FALSE) : d \in GhevDocuments}
=============================================================================
