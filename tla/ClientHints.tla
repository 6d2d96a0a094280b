----------------------------- MODULE ClientHints -----------------------------
(***************************************************************************)
(* What the documents mean that the transforms of src/transformc.c read:   *)
(* the text of a well formed document, and the headers it stands for,      *)
(* defined together and without reading anything.  The reference of        *)
(* TransformArray and SpecialEvidence, from the documents and the headers  *)
(* of src/test/hash/TransformTests.cpp.                                    *)
(*                                                                         *)
(* A member of a document is its text and the pairs it stands for; members *)
(* are put together with Document.                                         *)
(***************************************************************************)
EXTENDS Integers, Sequences

LOCAL Q == "\""

Quoted(words) == <<Q>> \o words \o <<Q>>
Named(name, value) == Quoted(<<name>>) \o <<":">> \o value

\* The texts of a list with a separator between them.
Joined(list, separator) ==
  LET join[n \in 0 .. Len(list)] ==
        IF n = 0 THEN <<>>
        ELSE join[n - 1] \o (IF n = 1 THEN <<>> ELSE separator) \o list[n]
  IN join[Len(list)]

\* A string, or null, as the value of a key.
StringMember(name, header, words) ==
  [text |-> Named(name, Quoted(words)),
   pairs |-> <<[key |-> header, text |-> Quoted(words)]>>]
NullMember(name) == [text |-> Named(name, <<"null">>), pairs |-> <<>>]

\* A key that stands for no header.
OtherMember(name, value) == [text |-> Named(name, value), pairs |-> <<>>]

\* Whether the device is mobile.
MobileMember(value) ==
  [text |-> Named("mobile", <<value>>),
   pairs |-> <<[key |-> "MOBILE",
                text |-> IF value \in {"true", "1"}
                         THEN <<"?", "1">> ELSE <<"?", "0">>]>>]

\* A list of brands, each with a brand and a version; a brand with no name
\* is left out.
NoName == <<"null">>
BrandMember(name, header, brands) ==
  LET item(b) == <<"{">>
                 \o Named("brand", IF b.brand = NoName THEN NoName
                                   ELSE Quoted(b.brand))
                 \o <<",">> \o Named("version", b.text) \o <<"}">>
      hasName(b) == b.brand # NoName
      kept == SelectSeq(brands, hasName)
      value(b) == Quoted(b.brand) \o <<";v=">> \o b.version
  IN [text |-> Named(name,
        <<"[">> \o Joined([i \in DOMAIN brands |-> item(brands[i])], <<",">>)
        \o <<"]">>),
      pairs |-> IF brands # <<>> /\ kept = <<>> THEN <<>>
                ELSE <<[key |-> header,
                        text |-> Joined([i \in DOMAIN kept |->
                                           value(kept[i])], <<",", " ">>)]>>]

GhevBrand(brand, version) ==
  [brand |-> brand, text |-> Quoted(version), version |-> Quoted(version)]
GhevBrandWithoutVersion(brand) ==
  [brand |-> brand, text |-> <<"null">>, version |-> <<"null">>]

\* The version of device.sua is the list of its numbers.
VersionText(numbers) ==
  <<"[">> \o Joined([i \in DOMAIN numbers |-> Quoted(<<numbers[i]>>)], <<",">>)
  \o <<"]">>
VersionValue(numbers) ==
  Quoted(Joined([i \in DOMAIN numbers |-> <<numbers[i]>>], <<".">>))
SuaBrand(brand, numbers) ==
  [brand |-> brand, text |-> VersionText(numbers),
   version |-> VersionValue(numbers)]

\* The platform of device.sua, with or without a version.
PlatformMember(words, numbers) ==
  LET brand == Named("brand", Quoted(words))
      platform == [key |-> "PLATFORM", text |-> Quoted(words)]
  IN IF numbers = <<>>
     THEN [text |-> Named("platform", <<"{">> \o brand \o <<"}">>),
           pairs |-> <<platform>>]
     ELSE [text |-> Named("platform",
             <<"{">> \o brand \o <<",">>
             \o Named("version", VersionText(numbers)) \o <<"}">>),
           pairs |-> <<platform, [key |-> "PLATFORMVERSION",
                                  text |-> VersionValue(numbers)]>>]

Document(members) ==
  [text |-> <<"{">>
            \o Joined([i \in DOMAIN members |-> members[i].text],
                      <<",", " ">>)
            \o <<"}">>,
   pairs |-> Joined([i \in DOMAIN members |-> members[i].pairs], <<>>)]
=============================================================================
