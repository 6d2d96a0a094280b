---------------------------- MODULE TransformArray ----------------------------
(***************************************************************************)
(* The array functions of src/transformc.c and a caller that calls again   *)
(* with a larger buffer: the wrapper of src/Transform.cpp, or a caller     *)
(* that does what src/transform.h says, which is to allocate "at least     *)
(* written" characters.                                                    *)
(***************************************************************************)
EXTENDS Transform

CONSTANTS
  Inputs  \* [kind, text, length, capacity, byTwo, pairs, form]: the first
          \* call, the capacity of its array, and whether the caller doubles
          \* the buffer, as the wrapper does; pairs are the headers of the
          \* document that text comes from, and form tells whether it is
          \* "whole", a "prefix" or "damaged"

ASSUME InputsAssumption ==
  \A i \in Inputs :
    /\ i.kind \in {"ghev", "base64", "broken64", "sua"}
    /\ i.text \in Seq(STRING)
    /\ {i.length, i.capacity} \subseteq Nat
    /\ i.byTwo \in BOOLEAN

\* Bound: more calls are not counted.  No property asks for more.
MaxCalls == 4

VARIABLES
  input,    \* the first call
  headers,  \* the array
  calls     \* how many calls were made, as far as MaxCalls

arrayVars == <<parse, input, headers, calls>>

ArrayInit ==
  /\ input \in Inputs
  /\ kind = input.kind
  /\ text = input.text
  /\ length = input.length
  /\ at = 1
  /\ out = <<>>
  /\ status = "NOT_SET"
  /\ cache = [h \in HeaderSet |-> NoValue]
  /\ key = Undefined
  /\ begin = 0
  /\ ptr = 0
  /\ named = FALSE
  /\ iterations = 0
  /\ pc = IF kind \in {"base64", "broken64"} THEN "decode" ELSE "keys"
  /\ headers = <<>>
  /\ calls = 1

Parsing == Parse /\ UNCHANGED <<input, headers, calls>>

\* pushToHeaders: the iteration goes on while there is room in the array.
PushToHeaders ==
  /\ pc = "callback"
  /\ headers' = IF Len(headers) < input.capacity THEN Append(headers, Pair)
                ELSE headers
  /\ Resume(Len(headers') < input.capacity)
  /\ UNCHANGED <<input, calls>>

\* The status of the exception when the array function returns.
Exception == IF iterations # Len(headers) THEN "INSUFFICIENT_CAPACITY"
             ELSE status

(* Mutants: the buffer is doubled, whatever the call counted, and grows    *)
(* from nothing or not.                                                    *)
LargerByTwo == 2 * length
LargerByTwoAndOne == 2 * length + 1

\* The buffer of the next call.
Larger == IF ~input.byTwo THEN Len(out)
          ELSE IF 2 * length > Len(out) + 1 THEN 2 * length ELSE Len(out) + 1

CallAgain ==
  /\ pc = "returned"
  /\ Exception = "INSUFFICIENT_MEMORY"
  /\ Start(kind, text, Larger)
  /\ headers' = <<>>
  /\ calls' = IF calls < MaxCalls THEN calls + 1 ELSE calls
  /\ UNCHANGED input

ArrayNext == Parsing \/ PushToHeaders \/ CallAgain

ArraySpec ==
  ArrayInit /\ [][ArrayNext]_arrayVars /\ WF_arrayVars(ArrayNext)

\* The loop of the wrapper has ended.
Answered == pc = "returned" /\ Exception # "INSUFFICIENT_MEMORY"

-----------------------------------------------------------------------------
TypeOK ==
  /\ at \in Nat \ {0}
  /\ status \in {"NOT_SET", "INVALID_INPUT", "INSUFFICIENT_MEMORY"}
  /\ \A h \in HeaderSet :
       cache[h].null \in BOOLEAN /\ {cache[h].from, cache[h].length} \subseteq Nat
  /\ key \in HeaderSet \cup {Undefined}
  /\ {begin, ptr} \subseteq 0 .. Len(out)
  /\ Len(headers) <= input.capacity

(***************************************************************************)
(* The cursor never passes the NUL that ends the text, whatever is cut or  *)
(* damaged: every scan looks for it before it goes on.                     *)
(***************************************************************************)
CursorInText == TypeOK /\ at <= Last

\* The places of a pair in the buffer: its name and its value.
KeyPlace(p) == {KeyPosition(p.key)}
ValuePlace(p) ==
  IF p.value.null THEN {}
  ELSE p.value.from + 1 .. p.value.from + p.value.length

(***************************************************************************)
(* What the array points to is all in the buffer: a value that is not      *)
(* null lies within the characters that fitted, it starts after the names, *)
(* and no two values share a character, so that no later value was written *)
(* over an earlier one.                                                    *)
(***************************************************************************)
ValuesAreApart ==
  \A i \in DOMAIN headers :
    /\ \A n \in ValuePlace(headers[i]) :
         n <= Current(Len(out)) /\ n > KeyPosition(Headers[8])
    /\ \A j \in DOMAIN headers :
         i # j => ValuePlace(headers[i]) \cap ValuePlace(headers[j]) = {}

Contents == [i \in DOMAIN headers |->
               [key |-> headers[i].key, text |-> Content(headers[i].value)]]

Cut(s, n) == SubSeq(s, 1, IF Len(s) < n THEN Len(s) ELSE n)

(***************************************************************************)
(* A well formed document is transformed into the headers it stands for,   *)
(* in order and as far as the array holds them, each with its whole text,  *)
(* however small the first buffer was, and without an exception when the   *)
(* array holds them all.  When there are more headers than the array holds *)
(* (transform.h:250-254) the exception should be INSUFFICIENT_CAPACITY and *)
(* the iterations the capacity that is needed; as pushToHeaders            *)
(* (transformc.c:1137) ends the iteration with the last header that fits,  *)
(* there is none, and of it nothing is said here.                          *)
(***************************************************************************)
WellFormedIsTransformed ==
  Answered /\ input.form = "whole" /\ input.capacity > 0 =>
    /\ Contents = Cut(input.pairs, input.capacity)
    /\ Len(input.pairs) <= input.capacity => Exception = "NOT_SET"

(***************************************************************************)
(* A document that was cut off yields the first of the headers of the      *)
(* whole one, and never a shorter value: a value is delivered once all of  *)
(* it was read.  Values are missing only if the buffer was too small.      *)
(***************************************************************************)
CutOffIsPrefix ==
  Answered /\ input.form = "prefix" =>
    \A i \in DOMAIN headers :
      /\ i <= Len(input.pairs)
      /\ headers[i].key = input.pairs[i].key
      /\ \/ Contents[i] = input.pairs[i]
         \/ headers[i].value.null /\ BufferTooSmall

(***************************************************************************)
(* A document is transformed, however small the first buffer was: a whole  *)
(* one into the headers it stands for, and one that was cut off into the   *)
(* first of them, with nothing that was not read to its end.               *)
(***************************************************************************)
DocumentIsTransformed == WellFormedIsTransformed /\ CutOffIsPrefix

(***************************************************************************)
(* A shortage of the buffer is never silent: when a call returns without   *)
(* an exception, all that was passed to the builder is in the buffer with  *)
(* its terminator, the flag says so, and only an empty list is delivered   *)
(* with no value.                                                          *)
(***************************************************************************)
ShortageIsReported ==
  pc = "returned" /\ Exception \in {"NOT_SET", "INSUFFICIENT_CAPACITY"}
    /\ status = "NOT_SET" =>
      /\ ~BufferTooSmall
      /\ \A i \in DOMAIN headers :
           headers[i].value.null => headers[i].value.length = 0

(***************************************************************************)
(* The count of what would have been written is good enough even of a call *)
(* that ran out of buffer: the second call succeeds, or the third for      *)
(* base64, whose first call may end with the decoding, and for device.sua, *)
(* whose first call may leave out the separators between the brands.  (A   *)
(* device.sua that has its list several times may take a call more of a    *)
(* caller that only allocates what was counted.)                           *)
(***************************************************************************)
RetriesAreFew == calls <= (IF kind = "ghev" THEN 2 ELSE 3)

(***************************************************************************)
(* src/transform.h:87: written is the "number of characters written or     *)
(* that would have been written to the buffer, reflects required buffer    *)
(* size": a caller that allocates that many characters, and calls again,   *)
(* is answered.  The decoding of base64 is written with its terminator to  *)
(* a buffer that keeps its last character for another one.                 *)
(***************************************************************************)
WrittenIsRequiredSize == ~input.byTwo => <>Answered

-----------------------------------------------------------------------------
(* The implementation of Retries.                                           *)

\* The decoded text, the names, and two characters for each that is read: a
\* truth is read as one symbol and written as two.
Enough == KeyPosition(Headers[8]) + 2 * Len(text) + 1

CallState == IF pc # "returned" THEN "calling"
             ELSE IF Answered THEN "answered" ELSE "short"

Retry == INSTANCE Retries WITH
  state <- CallState,
  left <- Left,
  size <- length,
  enough <- Enough

(***************************************************************************)
(* The loop of Transform.cpp ends and why it does: each step of the parser *)
(* moves the cursor on or comes closer to the end of the call, the buffer  *)
(* is larger in each call than in the one before, and it is never too      *)
(* small when it has the size Enough.                                      *)
(***************************************************************************)
ImplementsRetries == Retry!Spec
=============================================================================
