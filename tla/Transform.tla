------------------------------ MODULE Transform ------------------------------
(***************************************************************************)
(* The parser of client hints (src/transformc.c): the JSON object of a     *)
(* getHighEntropyValues call ("ghev"), the same in base64 ("base64"), or   *)
(* of device.sua ("sua") is read once from left to right, each value of a  *)
(* known key is written to the caller's buffer as the value of a Sec-CH-UA *)
(* header, and a callback is called with the name and the value.           *)
(*                                                                         *)
(* A text is a sequence of symbols and ends with a NUL just beyond it.     *)
(* Each symbol stands for a word of the code and takes one character:      *)
(* the names of the keys, the literals, and the words in a string.  What   *)
(* the code does with a word it knows part of is what it does with the     *)
(* symbol of that part followed by another one.                            *)
(*                                                                         *)
(* The callback is the caller's: it is called where pc is "callback", and  *)
(* the caller's action has Resume as a conjunct.  TransformArray and       *)
(* SpecialEvidence are the two callers.                                    *)
(***************************************************************************)
EXTENDS Integers, Sequences, FiniteSets

VARIABLES
  kind,       \* which function was called: "ghev", "base64", "sua", or
              \* "broken64" for a text that is not base64
  text,       \* the JSON, decoded
  length,     \* the length of the buffer
  at,         \* json: the position of the next symbol
  out,        \* the symbols passed to the StringBuilder, fitting or not
  status,
  cache,      \* the value last read for each header
  key,        \* the key of the value being read
  begin,      \* how much was written when the value was begun
  ptr,        \* how much was written when ptr was last assigned
  named,      \* the brand being read is not null
  iterations, \* the calls of the callback
  pc

parse == <<kind, text, length, at, out, status, cache, key, begin, ptr,
           named, iterations, pc>>

NUL == "NUL"
Quote == "\""
Escape == "\\"

\* enum Key and key_map: the headers in the order their names are written.
Headers == <<"ARCHITECTURE", "BRANDS", "BITNESS", "FULLVERSIONLIST",
             "MOBILE", "MODEL", "PLATFORM", "PLATFORMVERSION">>
HeaderSet == {Headers[i] : i \in DOMAIN Headers}
Undefined == "KEY_UNDEFINED"

-----------------------------------------------------------------------------
(* Reading.                                                                *)

Sym(i) == IF i \in DOMAIN text THEN text[i] ELSE NUL
Last == Len(text) + 1

SkipSpace(i) ==
  CHOOSE j \in i .. i + Len(text) :
    /\ Sym(j) # " "
    /\ \A k \in i .. j - 1 : Sym(k) = " "

\* skipToNextChar: a target after a backslash is skipped, and so is a
\* backslash after a backslash.
Skip(i, target) ==
  LET skip[j \in Nat] ==
        IF Sym(j) \in {target, NUL} THEN j
        ELSE IF Sym(j) = Escape /\ Sym(j + 1) \in {target, Escape}
             THEN skip[j + 2]
             ELSE skip[j + 1]
  IN skip[i]

\* The position past the end of a nested object or array, whose strings may
\* hold brackets; the NUL if it has no end.
SkipNested(i, open, close) ==
  LET skip[j \in Nat] ==
        [level \in Nat |->
           IF level = 0 \/ Sym(j) = NUL THEN j
           ELSE IF Sym(j) = Quote
                THEN LET end == Skip(j + 1, Quote)
                     IN IF Sym(end) = NUL THEN end ELSE skip[end + 1][level]
                ELSE skip[j + 1][CASE Sym(j) = open -> level + 1
                                   [] Sym(j) = close -> level - 1
                                   [] OTHER -> level]]
  IN skip[i][1]

SkipPrimitive(i) ==
  CHOOSE j \in i .. i + Len(text) :
    /\ Sym(j) \in {NUL, ",", "}", "]"}
    /\ \A k \in i .. j - 1 : Sym(k) \notin {NUL, ",", "}", "]"}

(* Mutant: the end of the text is not looked for after a value.            *)
SkipValuePastEnd(i) ==
  LET colon == Skip(i, ":")
      first == SkipSpace(colon + 1)
      end == CASE Sym(first) = "{" -> SkipNested(first + 1, "{", "}")
               [] Sym(first) = "[" -> SkipNested(first + 1, "[", "]")
               [] Sym(first) = Quote -> Skip(first + 1, Quote)
               [] OTHER -> SkipPrimitive(first)
  IN Skip(end + 1, Quote)

\* skipValue: the position of the quote of the next key, or the NUL.
SkipValue(i) ==
  LET colon == Skip(i, ":")
      first == SkipSpace(colon + 1)
      end == CASE Sym(first) = "{" -> SkipNested(first + 1, "{", "}")
               [] Sym(first) = "[" -> SkipNested(first + 1, "[", "]")
               [] Sym(first) = Quote -> Skip(first + 1, Quote)
               [] OTHER -> SkipPrimitive(first)
  IN IF Sym(colon) = NUL THEN colon
     ELSE IF Sym(first) = NUL THEN first
     ELSE IF Sym(end) = NUL THEN end
     ELSE Skip(end + 1, Quote)

\* The position past the next target, or 0 when there is none: the pair of
\* skipToNextChar and ExpectSymbol.  0 stays 0.
Past(i, target) ==
  LET j == Skip(i, target)
  IN IF i = 0 \/ Sym(j) = NUL THEN 0 ELSE j + 1

\* The position past the colon of the next key, which must be word.
Member(i, word) ==
  LET first == Past(i, Quote)
  IN IF first # 0 /\ Sym(first) = word /\ Sym(first + 1) = Quote
     THEN Past(first + 2, ":")
     ELSE 0

-----------------------------------------------------------------------------
(* Writing.  The last character of the buffer is kept for a terminator; the *)
(* builder counts what does not fit.                                        *)

Room == IF length = 0 THEN 0 ELSE length - 1
Current(n) == IF n < Room THEN n ELSE Room

(* Mutant: no place is kept for the terminator.                            *)
WrittenToEnd(s) ==
  IF s # <<>> /\ Len(out) + Len(s) > length
  THEN "INSUFFICIENT_MEMORY" ELSE status

\* The status after s was written: safeWriteToBuffer.
Written(s) ==
  IF s # <<>> /\ Len(out) + Len(s) > Room
  THEN "INSUFFICIENT_MEMORY" ELSE status

(* Mutant: the pointers go on past what fits.                              *)
RegionPastEnd(from, to, st) ==
  [null |-> FALSE, from |-> from, length |-> to - from]

\* The part of the buffer from a pointer, ValuePtr, to another one.
Region(from, to, st) ==
  [null |-> st = "INSUFFICIENT_MEMORY",
   from |-> Current(from), length |-> Current(to) - Current(from)]

NoValue == [null |-> TRUE, from |-> 0, length |-> 0]

-----------------------------------------------------------------------------
(* A call.                                                                 *)

Start(k, t, n) ==
  /\ kind' = k
  /\ text' = t
  /\ length' = n
  /\ at' = 1
  /\ out' = <<>>
  /\ status' = "NOT_SET"
  /\ cache' = [h \in HeaderSet |-> NoValue]
  /\ key' = Undefined
  /\ begin' = 0
  /\ ptr' = 0
  /\ named' = FALSE
  /\ iterations' = 0
  /\ pc' = IF k \in {"base64", "broken64"} THEN "decode" ELSE "keys"

call == <<kind, text, length>>

\* Characters are decoded three at a time, and a NUL is written after them.
DecodedLength(n) == 3 * ((n + 2) \div 3) + 1

Decode ==
  /\ pc = "decode"
  /\ kind = "base64"
  /\ LET s == [i \in 1 .. DecodedLength(Len(text)) |-> Sym(i)]
     IN /\ out' = s
        /\ status' = Written(s)
  /\ pc' = IF status' = "INSUFFICIENT_MEMORY" THEN "returned" ELSE "keys"
  /\ UNCHANGED <<call, at, cache, key, begin, ptr, named, iterations>>

\* A bad length is seen before, a bad character after something was written.
DecodeBroken ==
  /\ pc = "decode"
  /\ kind = "broken64"
  /\ \E n \in {0, 3} : out' = [i \in 1 .. n |-> NUL]
  /\ status' = "INVALID_INPUT"
  /\ pc' = "returned"
  /\ UNCHANGED <<call, at, cache, key, begin, ptr, named, iterations>>

\* initKeys and initParsing.
WriteKeys ==
  /\ pc = "keys"
  /\ out' = out \o Headers
  /\ LET open == SkipSpace(1)
     IN IF Sym(open) = "{"
        THEN /\ at' = Skip(open, Quote)
             /\ status' = Written(Headers)
             /\ pc' = "key"
        ELSE /\ at' = open
             /\ status' = "INVALID_INPUT"
             /\ pc' = "complete"
  /\ UNCHANGED <<call, cache, key, begin, ptr, named, iterations>>

\* The words that start a key and the key they are read as.
GhevKeys == [architecture |-> "ARCHITECTURE", brands |-> "BRANDS",
             bitness |-> "BITNESS", fullVersionList |-> "FULLVERSIONLIST",
             mobile |-> "MOBILE", model |-> "MODEL", platform |-> "PLATFORM",
             platformVersion |-> "PLATFORMVERSION"]
SuaKeys == [architecture |-> "ARCHITECTURE", browsers |-> "FULLVERSIONLIST",
            bitness |-> "BITNESS", mobile |-> "MOBILE", model |-> "MODEL",
            platform |-> "PLATFORM"]
Keys == IF kind = "sua" THEN SuaKeys ELSE GhevKeys

\* readGhevKey and readSuaKey: the key that starts after the quote at i, and
\* where it ends.  Only "platform" is read with the quote that ends it.
KeyAt(i) ==
  LET word == Sym(i + 1)
  IN IF word \in DOMAIN Keys /\ (word = "platform" => Sym(i + 2) = Quote)
     THEN [key |-> Keys[word], end |-> i + 2]
     ELSE [key |-> Undefined, end |-> Skip(i + 1, Quote)]

Invalid ==
  /\ status' = "INVALID_INPUT"
  /\ pc' = "complete"
  /\ UNCHANGED <<call, at, out, cache, key, begin, ptr, named, iterations>>

EndOfText ==
  /\ pc = "key"
  /\ Sym(at) = NUL
  /\ pc' = "complete"
  /\ UNCHANGED <<call, at, out, status, cache, key, begin, ptr, named,
                 iterations>>

BadKey ==
  /\ pc = "key"
  /\ Sym(at) # NUL
  /\ Sym(KeyAt(at).end) # Quote
  /\ Invalid

SkipKey ==
  /\ pc = "key"
  /\ Sym(at) # NUL
  /\ Sym(KeyAt(at).end) = Quote
  /\ KeyAt(at).key = Undefined
  /\ at' = SkipValue(KeyAt(at).end + 1)
  /\ UNCHANGED <<call, out, status, cache, key, begin, ptr, named,
                 iterations, pc>>

ReadKey ==
  /\ pc = "key"
  /\ Sym(at) # NUL
  /\ Sym(KeyAt(at).end) = Quote
  /\ KeyAt(at).key # Undefined
  /\ LET colon == Past(KeyAt(at).end, ":")
         first == SkipSpace(colon)
     IN IF colon = 0 \/ Sym(first) = NUL
        THEN Invalid
        ELSE /\ at' = first
             /\ key' = KeyAt(at).key
             /\ begin' = Len(out)
             /\ ptr' = Len(out)
             /\ pc' = "value"
             /\ UNCHANGED <<call, out, status, cache, named, iterations>>

-----------------------------------------------------------------------------
(* The values.                                                             *)

(* Mutant: a string that is not closed ends with the text.                 *)
StringAtUnclosed(i) ==
  LET first == SkipSpace(i)
      close == Skip(first + 1, Quote)
  IN CASE Sym(first) = "null" ->
            [type |-> "null", end |-> first + 1, text |-> <<>>]
       [] Sym(first) = Quote ->
            [type |-> "string",
             end |-> IF Sym(close) = NUL THEN close ELSE close + 1,
             text |-> SubSeq(text, first,
                             IF Sym(close) = NUL THEN Len(text) ELSE close)]
       [] OTHER -> [type |-> "invalid", end |-> first, text |-> <<>>]

\* readStringValue: null, or a string with its quotes, or neither.
StringAt(i) ==
  LET first == SkipSpace(i)
      close == Skip(first + 1, Quote)
  IN CASE Sym(first) = "null" ->
            [type |-> "null", end |-> first + 1, text |-> <<>>]
       [] Sym(first) = Quote /\ Sym(close) = Quote ->
            [type |-> "string", end |-> close + 1,
             text |-> SubSeq(text, first, close)]
       [] Sym(first) = Quote /\ Sym(close) = NUL ->
            [type |-> "invalid", end |-> close,
             text |-> SubSeq(text, first, close - 1)]
       [] OTHER -> [type |-> "invalid", end |-> first, text |-> <<>>]

\* A status set to INVALID_INPUT is lost when a later character finds the
\* buffer full.
StatusOf(s, more) ==
  IF s.type = "invalid"
  THEN IF more # <<>> /\ Len(out) + Len(s.text) + Len(more) > Room
       THEN "INSUFFICIENT_MEMORY" ELSE "INVALID_INPUT"
  ELSE Written(s.text \o more)

\* The value is read: the callback is called unless the value is null or
\* the text invalid.
Read(st, delivered, end) ==
  /\ status' = st
  /\ at' = IF delivered THEN end ELSE Skip(end, Quote)
  /\ pc' = IF st = "INVALID_INPUT" THEN "complete"
           ELSE IF delivered THEN "callback" ELSE "key"

IsBrands == key \in {"BRANDS", "FULLVERSIONLIST"}
IsPlatform == kind = "sua" /\ key = "PLATFORM"

ReadPureString ==
  /\ pc = "value"
  /\ ~IsBrands /\ ~IsPlatform /\ key # "MOBILE"
  /\ LET s == StringAt(at)
         st == StatusOf(s, <<>>)
     IN /\ out' = out \o s.text
        /\ cache' = IF s.type = "null" THEN cache
                    ELSE [cache EXCEPT ![key] = Region(begin, Len(out'), st)]
        /\ Read(st, s.type # "null", s.end)
  /\ UNCHANGED <<call, key, begin, ptr, named, iterations>>

\* readBoolGhevValue and readBoolSuaValue.
Truths == IF kind = "sua" THEN [t \in {"0", "1"} |-> <<"?", t>>]
          ELSE [t \in {"false", "true"} |->
                  IF t = "true" THEN <<"?", "1">> ELSE <<"?", "0">>]

ReadBool ==
  /\ pc = "value"
  /\ key = "MOBILE"
  /\ IF Sym(at) \in DOMAIN Truths
     THEN LET s == Truths[Sym(at)]
          IN /\ out' = out \o s
             /\ cache' = [cache EXCEPT ![key] =
                            [Region(begin, Len(out'), Written(s))
                               EXCEPT !.length = Len(s)]]
             /\ Read(Written(s), TRUE, at + 1)
             /\ UNCHANGED <<call, key, begin, ptr, named, iterations>>
     ELSE Invalid

\* readBrandsGhevValue and readBrandsSuaValue, one brand at a time.  The
\* second does not look for the end of the list before the first brand.
ReadBrands ==
  /\ pc = "value"
  /\ IsBrands
  /\ LET first == Past(at, "[")
     IN IF first = 0 THEN Invalid
        ELSE /\ at' = first
             /\ pc' = "brand"
             /\ UNCHANGED <<call, out, status, cache, key, begin, ptr, named,
                            iterations>>

NoBrands ==
  /\ pc = "brand"
  /\ kind # "sua"
  /\ Sym(SkipSpace(at)) = "]"
  /\ cache' = [cache EXCEPT ![key] = NoValue]
  /\ Read(status, TRUE, SkipSpace(at))
  /\ UNCHANGED <<call, out, key, begin, ptr, named, iterations>>

ReadBrand ==
  /\ pc = "brand"
  /\ kind = "sua" \/ Sym(SkipSpace(at)) # "]"
  /\ LET brand == Member(Past(at, "{"), "brand")
         s == StringAt(brand)
         more == IF s.type = "null" THEN <<>> ELSE <<";v=">>
     IN IF brand = 0 THEN Invalid
        ELSE /\ out' = out \o s.text \o more
             /\ status' = StatusOf(s, more)
             /\ named' = (s.type # "null")
             /\ ptr' = IF named' THEN Len(out') ELSE ptr
             /\ at' = s.end
             /\ pc' = IF named' THEN "version" ELSE "endBrand"
             /\ UNCHANGED <<call, cache, key, begin, iterations>>

\* readVersionSua: the strings of a list are joined with dots, without their
\* quotes; a quote is written at the end, past the symbol after the bracket.
VersionAt(i) ==
  LET read[j \in Nat] ==
        [quoted \in BOOLEAN |->
           LET rest(n, q, s) == [read[j + n][q] EXCEPT !.text = s \o @]
               escaped == Sym(j) = Escape /\ Sym(j + 1) \in {Escape, Quote}
           IN IF Sym(j) = NUL
              THEN [type |-> "invalid", end |-> j, text |-> <<>>]
              ELSE IF Sym(j) = Quote THEN rest(1, ~quoted, <<>>)
              ELSE IF quoted
              THEN IF escaped THEN rest(2, TRUE, <<Escape, Sym(j + 1)>>)
                   ELSE rest(1, TRUE, <<Sym(j)>>)
              ELSE CASE Sym(j) = "," -> rest(1, FALSE, <<".">>)
                     [] Sym(j) = "]" ->
                          [type |-> IF Sym(j + 1) = NUL THEN "invalid"
                                    ELSE "list",
                           end |-> j + 1,
                           text |-> IF Sym(j + 1) = NUL THEN <<>>
                                    ELSE <<Quote>>]
                     [] OTHER -> rest(1, FALSE, <<>>)]
  IN read[i][FALSE]

\* The pointer is rolled back to the start of a version that is invalid.
Versioned(v) == IF v.type = "invalid" THEN Len(out) + 1 ELSE Len(out')

ReadVersion ==
  /\ pc = "version"
  /\ LET version == Member(Past(at, ","), "version")
         list == Past(version, "[")
         v == IF kind = "sua" THEN VersionAt(list) ELSE StringAt(version)
         s == IF kind = "sua" THEN <<Quote>> \o v.text
              ELSE IF v.type = "null" THEN <<"null">> ELSE v.text
     IN IF version = 0 \/ (kind = "sua" /\ list = 0) THEN Invalid
        ELSE /\ out' = out \o s
             /\ status' = IF v.type = "invalid" THEN "INVALID_INPUT"
                          ELSE Written(s)
             /\ ptr' = IF kind = "sua" THEN Versioned(v) ELSE Len(out')
             /\ at' = v.end
             /\ pc' = "endBrand"
             /\ UNCHANGED <<call, cache, key, begin, named, iterations>>

EndBrand ==
  /\ pc = "endBrand"
  /\ LET brace == Past(at, "}")
         next == SkipSpace(brace)
         separated == IF kind = "sua" THEN Current(ptr) # Current(begin)
                      ELSE named
     IN CASE brace = 0 \/ Sym(next) \notin {"]", ","} -> Invalid
          [] brace # 0 /\ Sym(next) = "]" ->
               /\ cache' = IF Current(ptr) = Current(begin) THEN cache
                           ELSE [cache EXCEPT ![key] =
                                   Region(begin, ptr, status)]
               /\ Read(status, Current(ptr) # Current(begin), next)
               /\ UNCHANGED <<call, out, key, begin, ptr, named, iterations>>
          [] brace # 0 /\ Sym(next) = "," ->
               /\ out' = IF separated THEN out \o <<",", " ">> ELSE out
               /\ status' = IF separated THEN Written(<<",", " ">>)
                            ELSE status
               /\ ptr' = IF separated THEN Len(out') ELSE ptr
               /\ at' = next + 1
               /\ pc' = "brand"
               /\ UNCHANGED <<call, cache, key, begin, named, iterations>>

\* readPlatformSuaValue: the brand is the platform, the version, if there is
\* one, the version of the platform.
ReadPlatform ==
  /\ pc = "value"
  /\ IsPlatform
  /\ LET brand == Member(Past(at, "{"), "brand")
         s == StringAt(brand)
         st == StatusOf(s, <<>>)
         next == SkipSpace(s.end)
     IN IF brand = 0 THEN Invalid
        ELSE /\ out' = out \o s.text
             /\ begin' = IF s.type = "null" THEN begin ELSE Len(out')
             /\ cache' = IF s.type = "null" THEN cache
                         ELSE [cache EXCEPT
                                 ![key] = Region(begin, Len(out'), st),
                                 !["PLATFORMVERSION"] = NoValue]
             /\ IF s.type = "null" \/ Sym(next) = "}"
                THEN Read(st, s.type # "null", next)
                ELSE /\ status' = st
                     /\ at' = next
                     /\ pc' = "platformVersion"
             /\ UNCHANGED <<call, key, ptr, named, iterations>>

ReadPlatformVersion ==
  /\ pc = "platformVersion"
  /\ LET version == IF Sym(at) = "," THEN Member(at + 1, "version") ELSE 0
         list == Past(version, "[")
         v == VersionAt(list)
         s == <<Quote>> \o v.text
         st == IF v.type = "invalid" THEN "INVALID_INPUT" ELSE Written(s)
     IN IF list = 0 \/ Sym(list) = NUL THEN Invalid
        ELSE /\ out' = out \o s
             /\ cache' = [cache EXCEPT !["PLATFORMVERSION"] =
                            Region(begin, Versioned(v), st)]
             /\ Read(st, TRUE, v.end)
             /\ UNCHANGED <<call, key, begin, ptr, named, iterations>>

-----------------------------------------------------------------------------
(* The callback, and the end of the call.                                  *)

(* Mutant: the names are where they are without base64.                    *)
KeyPositionInText(h) == CHOOSE i \in DOMAIN Headers : Headers[i] = h

\* The pair the callback is called with.  The name of a header is in the
\* buffer too, and may not have fitted.
KeyPosition(h) ==
  (IF kind = "base64" THEN DecodedLength(Len(text)) ELSE 0)
  + CHOOSE i \in DOMAIN Headers : Headers[i] = h
Pair == [key |-> key, value |-> cache[key]]

\* The callback returned more.  The version of a platform is delivered after
\* the platform.
Resume(more) ==
  /\ pc = "callback"
  /\ iterations' = iterations + 1
  /\ LET version == IsPlatform /\ cache["PLATFORMVERSION"].length # 0
     IN /\ pc' = IF ~more THEN "complete"
                 ELSE IF version THEN "callback" ELSE "key"
        /\ key' = IF more /\ version THEN "PLATFORMVERSION" ELSE key
        /\ at' = IF ~more \/ version THEN at ELSE Skip(at, Quote)
  /\ UNCHANGED <<call, out, status, cache, begin, ptr, named>>

\* StringBuilderComplete writes a terminator in the place kept for it.
Complete ==
  /\ pc = "complete"
  /\ out' = Append(out, NUL)
  /\ pc' = "returned"
  /\ UNCHANGED <<call, at, status, cache, key, begin, ptr, named, iterations>>

BufferTooSmall == Len(out) > length

\* Every step of a call but those of its caller.
Parse ==
  \/ Decode \/ DecodeBroken \/ WriteKeys
  \/ EndOfText \/ BadKey \/ SkipKey \/ ReadKey
  \/ ReadPureString \/ ReadBool
  \/ ReadBrands \/ NoBrands \/ ReadBrand \/ ReadVersion \/ EndBrand
  \/ ReadPlatform \/ ReadPlatformVersion
  \/ Complete

\* The symbols of a value.
Content(v) == SubSeq(out, v.from + 1, v.from + v.length)

-----------------------------------------------------------------------------
(* How far a call is from its end.                                         *)

\* How many steps there may be before the cursor moves on or the call returns.
Steps ==
  CASE pc = "decode" -> 7
    [] pc = "keys" -> 6
    [] pc = "callback" -> IF key = "PLATFORMVERSION" THEN 3 ELSE 4
    [] pc = "key" -> 2
    [] pc = "complete" -> 1
    [] pc = "returned" -> 0
    [] OTHER -> 5

Left == IF pc = "returned" THEN 0 ELSE 8 * (Last - at) + Steps
=============================================================================
