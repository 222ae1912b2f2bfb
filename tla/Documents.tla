----------------------------- MODULE Documents -----------------------------
(***************************************************************************)
(* TranslateFd, crates/dragomand/src/service.rs: a document is read by a   *)
(* blocking thread, translated chunk by chunk through run_translation, and *)
(* written by a second blocking thread, all inside the task of one request *)
(* (requests.rs), which a Cancel or a vanished client ends at any of its   *)
(* awaits.  A blocking thread cannot be ended: it goes on by itself.       *)
(*                                                                         *)
(* Only the wanted lines (with a letter or digit) are modelled, each by    *)
(* its length; the others are never touched.  Between two chunks pairs are *)
(* installed and removed, so that the route may change.                    *)
(***************************************************************************)
EXTENDS Integers

CONSTANTS MaxLines,    \* a bound: the wanted lines of a document
          MaxLength,   \* a bound: the length of a line
          ChunkLines,  \* DOCUMENT_CHUNK_LINES
          MaxBytes     \* MAX_TOTAL_BYTES

DocumentsAssumption ==
    MaxLines \in Nat /\ MaxLength \in Nat /\ ChunkLines \in Nat \ {0} /\ MaxBytes \in Nat

ASSUME DocumentsAssumption

VARIABLES
    wanted,     \* how many lines there are to translate
    length,     \* [1 .. wanted -> their lengths]
    task,       \* where the request's task is
    done,       \* the lines that are translated
    chunk,      \* how many lines the engine has got
    lines,      \* [1 .. wanted -> "source", or the route of the translation]
    pivot,      \* whether the results would name a pivot
    route,      \* what plan_route answers now
    writer,     \* the thread that writes
    output,     \* what is in the output file
    cancelled,  \* Request1.Cancel was called, or the client vanished
    response    \* the code of the Response

document == <<wanted, length>>
progress == <<done, chunk, lines, pivot>>
writing  == <<writer, output>>
vars     == <<document, task, progress, route, writing, cancelled, response>>

Routes == {"direct", "pivot"}

Init ==
    /\ wanted \in 0 .. MaxLines /\ length \in [1 .. wanted -> 0 .. MaxLength]
    /\ task = "reading" /\ done = 0 /\ chunk = 0
    /\ lines = [i \in 1 .. wanted |-> "source"] /\ pivot = FALSE
    /\ route \in Routes  \* the method fails without one
    /\ writer = "none" /\ output = "untouched"
    /\ cancelled = FALSE /\ response = "none"
-----------------------------------------------------------------------------
(* The request's task *)

Goto(from, to) == task = from /\ task' = to

\* A request that was cancelled says so, whatever its work came to.
Answer(code) ==
    /\ task' = "over" /\ response' = IF cancelled THEN "cancelled" ELSE code
    /\ UNCHANGED <<document, progress, route, writing, cancelled>>

Read ==
    /\ Goto("reading", "choosing")
    /\ UNCHANGED <<document, progress, route, writing, cancelled, response>>

\* Larger than MAX_DOCUMENT_BYTES, not UTF-8, or not readable.
ReadFails == task = "reading" /\ Answer("error")

\* The bytes of the lines from a to b.
Bytes(a, b) ==
    LET upto[i \in 0 .. wanted] == IF i = 0 THEN 0 ELSE upto[i - 1] + length[i]
    IN  upto[b] - upto[a - 1]

\* Line b still goes into the chunk that begins after the done lines.
Fits(b) == b - done =< ChunkLines /\ (b = done + 1 \/ Bytes(done + 1, b) =< MaxBytes)

\* The inner loop: lines as long as they fit, the first in any case.
ChooseChunk ==
    /\ done < wanted /\ Goto("choosing", "translating")
    /\ \E b \in done + 1 .. wanted :
          /\ \A i \in done + 1 .. b : Fits(i)
          /\ b < wanted => ~Fits(b + 1)
          /\ chunk' = b - done
    /\ UNCHANGED <<document, done, lines, pivot, route, writing, cancelled, response>>

\* (Mutant) every chunk counts as a full one.
TranslateFull ==
    /\ route \in Routes /\ Goto("translating", "choosing")
    /\ lines' = [i \in 1 .. wanted |->
                   IF i \in done + 1 .. done + chunk THEN route ELSE lines[i]]
    /\ pivot' = (route = "pivot") /\ chunk' = 0
    /\ done' = IF done + ChunkLines < wanted THEN done + ChunkLines ELSE wanted
    /\ UNCHANGED <<document, route, writing, cancelled, response>>

\* run_translation returns a translation for each line of the chunk.
Translate ==
    /\ route \in Routes /\ Goto("translating", "choosing")
    /\ lines' = [i \in 1 .. wanted |->
                   IF i \in done + 1 .. done + chunk THEN route ELSE lines[i]]
    /\ pivot' = (route = "pivot") /\ done' = done + chunk /\ chunk' = 0
    /\ UNCHANGED <<document, route, writing, cancelled, response>>

\* It fails, or returns another number of lines.
TranslateFails == task = "translating" /\ Answer("error")

\* (Mutant) a document without a wanted line waits for one.
StartWritingLines ==
    /\ done = wanted /\ wanted > 0 /\ Goto("choosing", "writing") /\ writer' = "started"
    /\ UNCHANGED <<document, progress, route, output, cancelled, response>>

StartWriting ==
    /\ done = wanted /\ Goto("choosing", "writing") /\ writer' = "started"
    /\ UNCHANGED <<document, progress, route, output, cancelled, response>>

\* (Mutant) an error of the blocking call is taken for one of the thread.
FinishHastily ==
    \/ task = "writing" /\ writer = "ended" /\ Answer("success")
    \/ task = "writing" /\ Answer("error")

Finish ==
    \/ task = "writing" /\ writer = "ended"  /\ Answer("success")
    \/ task = "writing" /\ writer = "failed" /\ Answer("error")

\* The select! drops the work at an await; that of the progress signal comes
\* after each chunk, before the next one is chosen.
Stop ==
    /\ cancelled /\ Answer("cancelled")
    /\ \/ task \in {"reading", "translating", "writing"}
       \/ task = "choosing" /\ done > 0

Task == \/ Read \/ ReadFails \/ ChooseChunk \/ Translate \/ TranslateFails
        \/ StartWriting \/ Finish \/ Stop
-----------------------------------------------------------------------------
(* write_document, and everybody else *)

WriteSome ==
    /\ writer = "started" /\ output' = "partial"
    /\ UNCHANGED <<document, task, progress, route, writer, cancelled, response>>

WriteRest ==
    /\ writer = "started" /\ writer' = "ended" /\ output' = "whole"
    /\ UNCHANGED <<document, task, progress, route, cancelled, response>>

WriteFails ==
    /\ writer = "started" /\ writer' = "failed"
    /\ UNCHANGED <<document, task, progress, route, output, cancelled, response>>

Writer == WriteSome \/ WriteRest \/ WriteFails

Cancel ==
    /\ task # "over" /\ cancelled' = TRUE
    /\ UNCHANGED <<document, task, progress, route, writing, response>>

\* InstallPair and RemovePair, for the pair or for one that it pivots over.
Reroute ==
    /\ route' \in Routes \cup {"none"}
    /\ UNCHANGED <<document, task, progress, writing, cancelled, response>>

Next == Task \/ Writer \/ Cancel \/ Reroute

\* The engine answers (Requests, RouteScheduler), and files are written.
Spec == Init /\ [][Next]_vars /\ WF_vars(Task) /\ WF_vars(WriteRest \/ WriteFails)
-----------------------------------------------------------------------------
TypeOK ==
    /\ wanted \in 0 .. MaxLines /\ length \in [1 .. wanted -> 0 .. MaxLength]
    /\ task \in {"reading", "choosing", "translating", "writing", "over"}
    /\ done \in 0 .. wanted /\ chunk \in 0 .. wanted - done
    /\ lines \in [1 .. wanted -> {"source"} \cup Routes] /\ pivot \in BOOLEAN
    /\ route \in Routes \cup {"none"}
    /\ writer \in {"none", "started", "ended", "failed"}
    /\ output \in {"untouched", "partial", "whole"} /\ cancelled \in BOOLEAN
    /\ response \in {"none", "success", "error", "cancelled"}

\* "Translated line by line and written to output" (dbus-api.md:112-115), all
\* or nothing: the first byte is written when no line is left that a chunk
\* did not cover, so that a document that fails or is cancelled on its last
\* chunk leaves nothing behind; a success is answered when all is written.
OutputIsWhole ==
    /\ output # "untouched" => \A i \in 1 .. wanted : lines[i] # "source"
    /\ response = "success" => output = "whole"

\* Once the client has heard of a success or an error, its file is left
\* alone.  (After a cancellation the thread may still write.)
SettledWhenAnswered ==
    [][(response = "success" \/ response = "error") => output' = output]_vars

\* The document of any length, with whatever fails in it, is answered.
Answered == <>(response # "none")
============================================================================
