------------------------- MODULE Documents_proofs -------------------------
(***************************************************************************)
(* What holds of a TranslateFd request for documents of any length, chunks *)
(* of any size, and whatever fails, is cancelled or is rerouted in it.     *)
(*                                                                         *)
(* The inductive invariant IInv says how the loop's counter, the lines and *)
(* the two threads hang together: the lines up to done are translated, the *)
(* writer exists only when done is all of them, and an answer other than   *)
(* CANCELLED is given only when the writer has come to its end.            *)
(***************************************************************************)
EXTENDS Documents, TLAPS

Types ==
    /\ wanted \in Nat /\ task \in {"reading", "choosing", "translating", "writing", "over"}
    /\ done \in 0 .. wanted /\ chunk \in 0 .. wanted - done
    /\ lines \in [1 .. wanted -> {"source"} \cup Routes]
    /\ route \in Routes \cup {"none"}
    /\ writer \in {"none", "started", "ended", "failed"}
    /\ output \in {"untouched", "partial", "whole"}
    /\ response \in {"none", "success", "error", "cancelled"}

\* The lines that the loop has passed are translated.
Passed == \A i \in 1 .. done : lines[i] # "source"

\* Nobody writes before the loop is through.
WriterLast == (writer # "none" \/ output # "untouched" \/ task = "writing") => done = wanted

WriterOnce ==
    /\ task \in {"reading", "choosing", "translating"} => writer = "none"
    /\ writer = "none" => output = "untouched"
    /\ writer = "ended" => output = "whole"

\* An answer is the task's last deed; but for CANCELLED, nobody writes then.
AnswerLast ==
    /\ response # "none" => task = "over"
    /\ response = "success" => writer = "ended"
    /\ response = "error" => writer # "started"

IInv == Types /\ Passed /\ WriterLast /\ WriterOnce /\ AnswerLast

USE DEF document, progress, writing

LEMMA InitIInv == Init => IInv
  BY DEF Init, IInv, Types, Passed, WriterLast, WriterOnce, AnswerLast, Routes

\* The request's task keeps IInv, one step at a time.
LEMMA AnswerKeeps ==
    ASSUME IInv, NEW code \in {"success", "error", "cancelled"}, Answer(code),
           code = "success" => writer = "ended",
           code = "error" => writer # "started",
           code = "cancelled" => cancelled
    PROVE  IInv'
<1>1. response' \in {code, "cancelled"} /\ task' = "over"
  BY DEF Answer
<1>2. response' = "error" => code = "error"
  BY DEF Answer
<1>3. response' = "success" => code = "success"
  BY DEF Answer
<1>4. UNCHANGED <<document, progress, route, writing>>
  BY DEF Answer
<1> QED BY <1>1, <1>2, <1>3, <1>4 DEF IInv, Types, Passed, WriterLast, WriterOnce, AnswerLast

LEMMA ChooseKeeps == ASSUME IInv, ChooseChunk PROVE IInv'
<1>1. chunk' \in 1 .. wanted - done
  BY DEF ChooseChunk, IInv, Types
<1>2. task = "choosing" /\ task' = "translating"
  BY DEF ChooseChunk, Goto
<1>3. UNCHANGED <<document, done, lines, route, writing, response>>
  BY DEF ChooseChunk
<1> QED BY <1>1, <1>2, <1>3 DEF IInv, Types, Passed, WriterLast, WriterOnce, AnswerLast

LEMMA TranslateKeeps == ASSUME IInv, Translate PROVE IInv'
<1>1. done' \in 0 .. wanted /\ chunk' = 0 /\ done' = done + chunk /\ done \in Nat /\ chunk \in Nat
  BY DEF Translate, IInv, Types
<1>2. task = "translating" /\ task' = "choosing" /\ route \in Routes
  BY DEF Translate, Goto
<1>3. UNCHANGED <<document, route, writing, response>>
  BY DEF Translate
<1>4. lines' = [i \in 1 .. wanted |-> IF i \in done + 1 .. done + chunk THEN route ELSE lines[i]]
  BY DEF Translate
<1>5. lines' \in [1 .. wanted -> {"source"} \cup Routes]
  BY <1>2, <1>4 DEF IInv, Types
<1>6. Types'
  BY <1>1, <1>2, <1>3, <1>5 DEF IInv, Types
<1>7. \A i \in 1 .. done' : lines'[i] # "source"
  <2> TAKE i \in 1 .. done'
  <2>1. i \in 1 .. wanted /\ (i \in 1 .. done \/ i \in done + 1 .. done + chunk)
    BY <1>1 DEF IInv, Types
  <2>2. CASE i \in done + 1 .. done + chunk
    BY <2>1, <2>2, <1>2, <1>4 DEF Routes
  <2>3. CASE i \in 1 .. done
    BY <2>1, <2>3, <1>1, <1>4 DEF IInv, Passed
  <2> QED BY <2>1, <2>2, <2>3
<1> QED BY <1>1, <1>2, <1>3, <1>6, <1>7 DEF IInv, Types, Passed, WriterLast, WriterOnce, AnswerLast

LEMMA StartWritingKeeps == ASSUME IInv, StartWriting PROVE IInv'
  BY DEF StartWriting, Goto, IInv, Types, Passed, WriterLast, WriterOnce, AnswerLast

LEMMA WriterKeeps == ASSUME IInv, Writer PROVE IInv'
<1>1. CASE WriteSome
  BY <1>1 DEF WriteSome, IInv, Types, Passed, WriterLast, WriterOnce, AnswerLast
<1>2. CASE WriteRest
  BY <1>2 DEF WriteRest, IInv, Types, Passed, WriterLast, WriterOnce, AnswerLast
<1>3. CASE WriteFails
  BY <1>3 DEF WriteFails, IInv, Types, Passed, WriterLast, WriterOnce, AnswerLast
<1> QED BY <1>1, <1>2, <1>3 DEF Writer

LEMMA NextKeeps == ASSUME IInv, [Next]_vars PROVE IInv'
<1>1. CASE Read
  BY <1>1 DEF Read, Goto, IInv, Types, Passed, WriterLast, WriterOnce, AnswerLast
<1>2. CASE ReadFails \/ TranslateFails
  <2>1. writer = "none" /\ Answer("error")
    BY <1>2 DEF ReadFails, TranslateFails, IInv, WriterOnce
  <2> QED BY <2>1, AnswerKeeps
<1>3. CASE Finish
  <2>1. CASE writer = "ended" /\ Answer("success")
    BY <2>1, AnswerKeeps
  <2>2. CASE writer = "failed" /\ Answer("error")
    BY <2>2, AnswerKeeps
  <2> QED BY <1>3, <2>1, <2>2 DEF Finish
<1>4. CASE Stop
  BY <1>4, AnswerKeeps DEF Stop
<1>5. CASE Cancel \/ Reroute
  BY <1>5 DEF Cancel, Reroute, IInv, Types, Passed, WriterLast, WriterOnce, AnswerLast
<1>6. CASE UNCHANGED vars
  BY <1>6 DEF vars, IInv, Types, Passed, WriterLast, WriterOnce, AnswerLast
<1> QED
  BY <1>1, <1>2, <1>3, <1>4, <1>5, <1>6, ChooseKeeps, TranslateKeeps, StartWritingKeeps,
     WriterKeeps DEF Next, Task

\* The invariant of the loop and its two threads.
THEOREM Invariant == Spec => []IInv
  BY InitIInv, NextKeeps, PTL DEF Spec

\* The output is written as a whole or not at all, after the last line, and
\* a success is told when it is complete: OutputIsWhole, for any document.
THEOREM OutputWritten == Spec => []OutputIsWhole
<1>1. IInv => OutputIsWhole
  <2> SUFFICES ASSUME IInv PROVE OutputIsWhole
    OBVIOUS
  <2>1. output # "untouched" => \A i \in 1 .. wanted : lines[i] # "source"
    BY DEF IInv, WriterLast, Passed
  <2>2. response = "success" => output = "whole"
    BY DEF IInv, AnswerLast, WriterOnce
  <2> QED BY <2>1, <2>2 DEF OutputIsWhole
<1> QED BY <1>1, Invariant, PTL

\* Nothing is written after a success or an error: SettledWhenAnswered.
THEOREM OutputSettles == Spec => SettledWhenAnswered
<1>1. ASSUME IInv, [Next]_vars, response = "success" \/ response = "error"
      PROVE  output' = output
  <2>1. writer # "started" /\ task = "over"
    BY <1>1 DEF IInv, AnswerLast
  <2> QED
    BY <1>1, <2>1 DEF Next, Task, Writer, vars, Read, ReadFails, ChooseChunk, Translate,
       TranslateFails, StartWriting, Finish, Stop, Goto, WriteSome, WriteRest, WriteFails,
       Cancel, Reroute
<1>2. IInv /\ [Next]_vars
        => [(response = "success" \/ response = "error") => output' = output]_vars
  BY <1>1
<1> QED BY <1>2, Invariant, PTL DEF Spec, SettledWhenAnswered

\* The variables keep to their types, the document itself to its bounds.
THEOREM TypeCorrect == Spec => []TypeOK
<1> DEFINE Fixed == /\ wanted \in 0 .. MaxLines /\ length \in [1 .. wanted -> 0 .. MaxLength]
                    /\ pivot \in BOOLEAN /\ cancelled \in BOOLEAN
<1>1. Init => Fixed
  BY DEF Init
<1>2. ASSUME Fixed, [Next]_vars PROVE Fixed'
  <2>1. UNCHANGED document
    BY <1>2 DEF Next, Task, Writer, vars, Read, ReadFails, ChooseChunk, Translate, TranslateFails,
       StartWriting, Finish, Stop, Answer, WriteSome, WriteRest, WriteFails, Cancel, Reroute
  <2>2. pivot' = pivot \/ pivot' = (route = "pivot")
    BY <1>2 DEF Next, Task, Writer, vars, Read, ReadFails, ChooseChunk, Translate, TranslateFails,
       StartWriting, Finish, Stop, Answer, WriteSome, WriteRest, WriteFails, Cancel, Reroute
  <2>3. cancelled' = cancelled \/ cancelled' = TRUE
    BY <1>2 DEF Next, Task, Writer, vars, Read, ReadFails, ChooseChunk, Translate, TranslateFails,
       StartWriting, Finish, Stop, Answer, WriteSome, WriteRest, WriteFails, Cancel, Reroute
  <2> QED BY <1>2, <2>1, <2>2, <2>3
<1>3. IInv /\ Fixed => TypeOK
  BY DEF IInv, Types, TypeOK
<1> HIDE DEF Fixed
<1> QED BY <1>1, <1>2, <1>3, Invariant, PTL DEF Spec
============================================================================
