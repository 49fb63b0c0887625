---------------------------- MODULE MessageCodec ----------------------------
(***************************************************************************)
(* One message on its way through the decoder, byte by byte: as long as    *)
(* bytes are missing onDataInSync validates what it has from the start     *)
(* again; a valid message is read, and written anew when its type is       *)
(* writeable (postgres_message.h, postgres_message.cc).                    *)
(*                                                                         *)
(* A byte is a number.  An integer stands in its last byte, whatever its   *)
(* value; the bytes before it are 0, or 255 in -1.                         *)
(***************************************************************************)
EXTENDS Integers, Sequences, SequencesExt

CONSTANTS
  Messages,   \* the messages that may come, see Message
  Follow,     \* what comes behind the message: the start of the next one
  Wrap        \* a size counted in an uint16_t is counted modulo this: 2^16

ASSUME WrapAssumption == Wrap \in Nat \ {0}

VARIABLES
  message,    \* the message that comes
  data,       \* the bytes of it, and of what follows, that have come
  verdict,    \* the result of the last validation
  consumed,   \* the bytes of the body that the validation went over
  written     \* what was put into the replacement data

vars == <<message, data, verdict, consumed, written>>

-----------------------------------------------------------------------------
(* The format of the protocol, as the peer writes it.                       *)
Int16(n) == <<0, n>>
Int32(n) == IF n = -1 THEN <<255, 255, 255, 255>> ELSE <<0, 0, 0, n>>
Null == <<-1>>

(* What a message may be: a text has no zero in it, an error field a code.  *)
Text == Seq(Nat \ {0})
Value == {Null} \union Seq(Nat)
ErrorField == [code : Nat \ {0}, text : Text]

Message ==
  [kind : {"Query"}, text : Text]
    \union [kind : {"DataRow"}, columns : Seq(Value)]
    \union [kind : {"ErrorResponse"}, fields : Seq(ErrorField)]
    \union [kind : {"ParameterStatus"}, name : Text, text : Text]
    \union [kind : {"PasswordMessage"}, text : Text]

ColumnBytes(value) == IF value = Null THEN Int32(-1) ELSE Int32(Len(value)) \o value
FieldBytes(field) == <<field.code>> \o field.text \o <<0>>

Body(m) ==
  CASE m.kind = "Query" -> m.text \o <<0>>
    [] m.kind = "DataRow" -> Int16(Len(m.columns)) \o
                             FlattenSeq([i \in DOMAIN m.columns |-> ColumnBytes(m.columns[i])])
    [] m.kind = "ErrorResponse" ->
         FlattenSeq([i \in DOMAIN m.fields |-> FieldBytes(m.fields[i])]) \o <<0>>
    [] m.kind = "ParameterStatus" -> m.name \o <<0>> \o m.text \o <<0>>
    [] m.kind = "PasswordMessage" -> m.text \o <<0>>

Identifier == [Query |-> 81, DataRow |-> 68, ErrorResponse |-> 69,
               ParameterStatus |-> 83, PasswordMessage |-> 112]

Frame(kind, body) == <<Identifier[kind]>> \o Int32(Len(body) + 4) \o body

Stream == Frame(message.kind, Body(message)) \o Follow
Header == 5
BodyLength == Len(Body(message))

-----------------------------------------------------------------------------
(* Validation: bytes is the buffer, at the offset it has come to, left the  *)
(* bytes of the message from there on.                                      *)
Step(result, at, left) == [result |-> result, at |-> at, left |-> left]
Advance(step, n) == Step("OK", step.at + n, step.left - n)
NeedMore(step) == [step EXCEPT !.result = "NeedMoreData"]
Failed(step) == [step EXCEPT !.result = "Failed"]

There(bytes, step) == Len(bytes) - step.at
PeekInt16(bytes, at) == bytes[at + 2]
PeekInt32(bytes, at) == IF bytes[at + 1] = 255 THEN -1 ELSE bytes[at + 4]

ValidateInt(size, bytes, step) ==
  CASE step.left < size -> Failed(step)
    [] step.left >= size /\ There(bytes, step) < size -> NeedMore(step)
    [] OTHER -> Advance(step, size)

(* Mutant of ValidateString: the terminating zero is not gone over.         *)
ValidateStringShort(bytes, step) ==
  LET zeros == {i \in step.at .. Len(bytes) - 1 : bytes[i + 1] = 0}
      size == Min(zeros) - step.at
  IN CASE zeros = {} -> IF step.left <= There(bytes, step) THEN Failed(step)
                                                           ELSE NeedMore(step)
       [] zeros # {} /\ size >= step.left -> Failed(step)
       [] OTHER -> Advance(step, size)

(* The terminating zero is looked for up to the end of the buffer.          *)
ValidateString(bytes, step) ==
  LET zeros == {i \in step.at .. Len(bytes) - 1 : bytes[i + 1] = 0}
      size == Min(zeros) - step.at
  IN CASE zeros = {} -> IF step.left <= There(bytes, step) THEN Failed(step)
                                                           ELSE NeedMore(step)
       [] zeros # {} /\ size >= step.left -> Failed(step)
       [] OTHER -> Advance(step, size + 1)

(* Mutant of ValidateByteN: it is not looked whether the bytes are there.   *)
ValidateByteNUnseen(bytes, step) == Advance(step, step.left)

ValidateByteN(bytes, step) ==
  IF step.left > There(bytes, step) THEN NeedMore(step) ELSE Advance(step, step.left)

(* Mutant of ValidateVarByteN: the four bytes of the length are forgotten.  *)
ValidateVarByteNEarly(bytes, step) ==
  LET len == PeekInt32(bytes, step.at)
  IN CASE step.left \in 0 .. 3 -> Failed(step)
       [] step.left \notin 0 .. 3 /\ There(bytes, step) < 4 -> NeedMore(step)
       [] OTHER -> CASE len > step.left -> Failed(step)
                     [] len < 1 -> Advance(step, 4)
                     [] OTHER -> IF There(bytes, step) < len THEN NeedMore(step)
                                                             ELSE Advance(step, len + 4)

(* A value may take up to four bytes more than are left: what is left then  *)
(* wraps in its uint64_t to no less than 4, but is compared with the length *)
(* as an int64_t below zero.                                                *)
ValidateVarByteN(bytes, step) ==
  LET len == PeekInt32(bytes, step.at)
  IN CASE step.left \in 0 .. 3 -> Failed(step)
       [] step.left \notin 0 .. 3 /\ There(bytes, step) < 4 -> NeedMore(step)
       [] OTHER -> CASE len > step.left -> Failed(step)
                     [] len < 1 -> Advance(step, 4)
                     [] OTHER -> IF There(bytes, step) < len + 4 THEN NeedMore(step)
                                                                 ELSE Advance(step, len + 4)

(* Sequence: one after the other, as long as all is well.                   *)
Then(step, Type(_, _), bytes) == IF step.result = "OK" THEN Type(bytes, step) ELSE step

(* What Turn makes of start in n turns of a loop.                           *)
Loop(start, n, Turn(_, _)) ==
  LET after[i \in 0 .. n] == IF i = 0 THEN start ELSE Turn(after[i - 1], i)
  IN after[n]

ValidateField(bytes, step) == Then(ValidateInt(1, bytes, step), ValidateString, bytes)

ValidateArray(bytes, step) ==
  LET Element(done, i) == Then(done, ValidateVarByteN, bytes)
  IN CASE step.left < 2 -> Failed(step)
       [] step.left >= 2 /\ There(bytes, step) < 2 -> NeedMore(step)
       [] OTHER -> Loop(Advance(step, 2), PeekInt16(bytes, step.at), Element)

(* Repeated ends at the first item that is none, which is left to the field *)
(* behind it.                                                               *)
ValidateRepeated(bytes, step) ==
  LET Item(done, i) == LET next == ValidateField(bytes, done)
                       IN IF next.result = "OK" THEN next ELSE done
  IN IF There(bytes, step) < step.left
       THEN NeedMore(step)
       ELSE Loop(step, step.left, Item)

Validate(kind, bytes, start) ==
  CASE kind = "Query" -> ValidateString(bytes, start)
    [] kind = "DataRow" -> ValidateArray(bytes, start)
    [] kind = "ErrorResponse" ->
         LET fields == ValidateRepeated(bytes, start)
         IN IF fields.result = "OK" THEN ValidateInt(1, bytes, fields) ELSE fields
    [] kind = "ParameterStatus" -> Then(ValidateString(bytes, start), ValidateString, bytes)
    [] kind = "PasswordMessage" -> Then(ValidateInt(4, bytes, start), ValidateByteN, bytes)

-----------------------------------------------------------------------------
(* Reading and writing the body of a valid message.                         *)
ReadString(body, at) ==
  SubSeq(body, at + 1, Min({i \in at + 1 .. Len(body) : body[i] = 0}) - 1)

ReadVarByteN(body, at) ==
  LET len == PeekInt32(body, at)
  IN IF len < 1 THEN Null ELSE SubSeq(body, at + 5, at + 4 + len)

SizeOf(value) == IF value = Null THEN 4 ELSE 4 + Len(value)

ReadColumns(body) ==
  LET Column(done, i) ==
        LET value == ReadVarByteN(body, done.at)
        IN [at |-> done.at + SizeOf(value), values |-> Append(done.values, value)]
  IN Loop([at |-> 2, values |-> <<>>], PeekInt16(body, 0), Column).values

ReadFields(body) ==
  LET Field(done, i) ==
        IF done.at >= Len(body) - 1 THEN done
        ELSE LET text == ReadString(body, done.at + 1)
             IN [at |-> done.at + Len(text) + 2,
                 values |-> Append(done.values, [code |-> body[done.at + 1], text |-> text])]
  IN Loop([at |-> 0, values |-> <<>>], Len(body), Field).values

(* Array::getSize and Repeated::getSize add up in an uint16_t.              *)
Counted(values, Size(_)) ==
  LET Counting(sum, i) == (sum + Size(values[i])) % Wrap
  IN Loop(0, Len(values), Counting)

(* Mutant of GetSize: an array does not count its own count.                *)
GetSizeShort(kind, body) ==
  CASE kind = "Query" -> Len(ReadString(body, 0)) + 1
    [] kind = "DataRow" -> Counted(ReadColumns(body), SizeOf)
    [] kind = "ErrorResponse" ->
         Counted(ReadFields(body), LAMBDA field : Len(field.text) + 2) + 1

GetSize(kind, body) ==
  CASE kind = "Query" -> Len(ReadString(body, 0)) + 1
    [] kind = "DataRow" -> 2 + Counted(ReadColumns(body), SizeOf)
    [] kind = "ErrorResponse" ->
         Counted(ReadFields(body), LAMBDA field : Len(field.text) + 2) + 1

(* Mutant of WriteBody: the fields of an error are not terminated.          *)
WriteBodyUnterminated(kind, body) ==
  CASE kind = "Query" -> ReadString(body, 0) \o <<0>>
    [] kind = "DataRow" ->
         LET columns == ReadColumns(body)
         IN Int16(Len(columns)) \o
            FlattenSeq([i \in DOMAIN columns |-> ColumnBytes(columns[i])])
    [] kind = "ErrorResponse" ->
         LET fields == ReadFields(body)
         IN FlattenSeq([i \in DOMAIN fields |-> FieldBytes(fields[i])])

WriteBody(kind, body) ==
  CASE kind = "Query" -> ReadString(body, 0) \o <<0>>
    [] kind = "DataRow" ->
         LET columns == ReadColumns(body)
         IN Int16(Len(columns)) \o
            FlattenSeq([i \in DOMAIN columns |-> ColumnBytes(columns[i])])
    [] kind = "ErrorResponse" ->
         LET fields == ReadFields(body)
         IN FlattenSeq([i \in DOMAIN fields |-> FieldBytes(fields[i])]) \o <<0>>

IsWriteable(kind) == kind \in {"Query", "DataRow", "ErrorResponse"}

Replacement(kind, body) ==
  IF IsWriteable(kind)
    THEN <<Identifier[kind]>> \o Int32(GetSize(kind, body) + 4) \o WriteBody(kind, body)
    ELSE Frame(kind, body)

-----------------------------------------------------------------------------
Init ==
  /\ message \in Messages
  /\ data = <<>>
  /\ verdict = "NeedMoreData"
  /\ consumed = 0
  /\ written = <<>>

(* onDataInSync with one more byte in the buffer.                           *)
Arrive ==
  /\ verdict # "Failed" /\ written = <<>>
  /\ Len(data) < Len(Stream)
  /\ data' = Append(data, Stream[Len(data) + 1])
  /\ IF Len(data') < Header
       THEN UNCHANGED <<verdict, consumed>>
       ELSE LET step == Validate(message.kind, data',
                                 Step("OK", Header, PeekInt32(data', 1) - 4))
            IN /\ verdict' = step.result
               /\ consumed' = step.at - Header
  /\ UNCHANGED <<message, written>>

(* processMessageBody of a message without a handler.                       *)
Process ==
  /\ verdict = "OK" /\ written = <<>>
  /\ written' = Replacement(message.kind, SubSeq(data, Header + 1, PeekInt32(data, 1) + 1))
  /\ UNCHANGED <<message, data, verdict, consumed>>

Next == Arrive \/ Process

Spec == Init /\ [][Next]_vars
-----------------------------------------------------------------------------
(* Properties.                                                              *)

(* The bytes are those of the message, the verdict is one of the three, no  *)
(* validation goes over bytes that have not come, and nothing is written    *)
(* but for a valid message.                                                 *)
TypeOK == /\ message \in Messages
          /\ IsPrefix(data, Stream)
          /\ verdict \in {"OK", "NeedMoreData", "Failed"}
          /\ consumed \in Nat
          /\ consumed > 0 => Header + consumed <= Len(data)
          /\ written # <<>> => verdict = "OK"

(* Wherever the network cuts a well-formed message, and whatever follows    *)
(* it, a part of it is never taken for the whole, nor for a malformed one,  *)
(* and the whole never waits for more.                                      *)
ValidExactlyWhenWhole ==
  verdict = (IF Len(data) < Header + BodyLength THEN "NeedMoreData" ELSE "OK")

(* A valid message is gone over to its end: no byte of it is dropped when   *)
(* it is written anew, and none of the next message is taken for its own.   *)
ConsumedToTheEnd == verdict = "OK" => consumed = BodyLength

(* What is written says of itself how long it is: the peer finds the next   *)
(* message behind it.                                                       *)
LengthIsTrue == written # <<>> => PeekInt32(written, 1) = Len(written) - 1

(* A message nobody changes is passed as it came.                           *)
PassedAsItCame == written # <<>> => written = Frame(message.kind, Body(message))
=============================================================================
