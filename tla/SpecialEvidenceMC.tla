-------------------------- MODULE SpecialEvidenceMC --------------------------
(* Evidence with up to two special pairs, among them documents that are     *)
(* damaged after the first headers, too large for the buffer or empty, and  *)
(* with headers that the caller provided, one of them twice.                *)
EXTENDS SpecialEvidence, ClientHints

Ghev == Document(<<StringMember("architecture", "ARCHITECTURE", <<"x">>),
                   StringMember("model", "MODEL", <<"m", "n">>)>>)
Sua == Document(<<PlatformMember(<<"P">>, <<"7">>),
                  StringMember("model", "MODEL", <<"o">>)>>)
Large == Document(<<StringMember("model", "MODEL", [i \in 1 .. 40 |-> "m"])>>)

Late == Document(<<StringMember("model", "MODEL", <<"m", "n">>),
                   StringMember("architecture", "ARCHITECTURE", <<"x">>)>>)
Long == Document(<<StringMember("model", "MODEL", <<"o">>),
                   StringMember("architecture", "ARCHITECTURE",
                                [i \in 1 .. 30 |-> "y"])>>)

Special(prefix, name, k, d, whole) ==
  [prefix |-> prefix, name |-> name, kind |-> k, text |-> d.text,
   pairs |-> d.pairs, whole |-> whole]
CutOff(d) == [d EXCEPT !.text = SubSeq(@, 1, Len(@) - 3)]

GhevPair(prefix) == Special(prefix, "ghev", "base64", Ghev, TRUE)
SuaPair(prefix) == Special(prefix, "sua", "sua", Sua, TRUE)
Specials ==
  { GhevPair("query"), GhevPair("header"), SuaPair("cookie"),
    Special("query", "ghev", "base64", CutOff(Ghev), FALSE),
    Special("query", "sua", "sua", CutOff(Sua), FALSE),
    Special("query", "sua", "sua", Large, FALSE),
    Special("cookie", "ghev", "broken64", Document(<<>>), FALSE),
    Special("query", "sua", "sua", Document(<<>>), FALSE) }

\* The second writes over the name that the first added before it failed.
Overwritten ==
  <<Special("query", "ghev", "base64", CutOff(Late), FALSE),
    Special("query", "sua", "sua", Long, TRUE)>>

Plain(prefix, name) ==
  [prefix |-> prefix, name |-> name, kind |-> "none", text |-> <<>>,
   pairs |-> <<>>, whole |-> FALSE]

Distinct(s, t) == s.prefix # t.prefix \/ s.name # t.name

MCEvidence ==
  {<<s>> : s \in Specials}
  \cup {<<st[1], st[2]>> : st \in {st \in Specials \X Specials :
                                     Distinct(st[1], st[2])}}
  \cup {<<Plain(p, "MODEL"), s>> : p \in {"query", "header"}, s \in Specials}
  \cup {<<Plain("header", "MODEL"), Plain("query", "MODEL"), s>> : s \in Specials}
  \cup {Overwritten}
  \cup {<<Plain("header", "ARCHITECTURE"), Plain("header", "MODEL")>>}

MCKnown == {"ARCHITECTURE", "MODEL", "PLATFORM"}
MCProperties ==
  <<[acceptCh |-> TRUE,
     values |-> <<<<"ARCHITECTURE">>, <<"ARCHITECTURE", "unknown">>>>],
    [acceptCh |-> FALSE, values |-> <<<<"PLATFORM">>>>],
    [acceptCh |-> TRUE, values |-> <<<<"MODEL">>>>]>>
=============================================================================
