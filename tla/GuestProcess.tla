---------------------------- MODULE GuestProcess ----------------------------
(***************************************************************************)
(* One command in the guest: Client.Run of                                 *)
(* src/internal/backend/e2b/guest.go and the process service of envd that  *)
(* it talks to (patch 0009 under src/third_party/e2b-runtime/patches).     *)
(*                                                                         *)
(* envd numbers the data and end events of a process in a bounded journal  *)
(* and streams them; the Start event is synthetic and has no number.  When *)
(* the stream dies, the client reconnects to the same process and asks for *)
(* the events after the last one its caller accepted.  A data event is     *)
(* modelled by its place in the output; those in Blank carry no bytes.     *)
(* envd's events are well formed: a process has a pid, and no PTY.         *)
(***************************************************************************)
EXTENDS Integers, SequencesExt

CONSTANTS
  MaxOutput,                    \* data events of the process
  Blank,                        \* the ones without bytes
  JournalLimit,                 \* JournalLimits.ProcessEvents
  processReconnectMaxAttempts,
  MaxUpgrades                   \* live upgrades of envd

ASSUME ProcessAssumption ==
  /\ MaxOutput \in Nat /\ Blank \subseteq 1 .. MaxOutput
  /\ JournalLimit \in Nat \ {0}
  /\ processReconnectMaxAttempts \in Nat \ {0} /\ MaxUpgrades \in Nat

VARIABLES
  proc,    \* the process and its journal, in envd
  stream,  \* the stream between client and envd
  run      \* the client

processVars == <<proc, stream, run>>

Start == -1
End   == 0

Events == {Start, End} \cup 1 .. MaxOutput

(* The journal of the process: `made` is everything it has produced,       *)
(* `journal` what was appended to the present journal, whose first         *)
(* `evicted` records are gone.  An upgrade of envd begins a new journal.   *)
EventJournal ==
  [kept: {"no", "live", "retained", "gone"}, replay: BOOLEAN, gen: 1 .. MaxUpgrades + 1,
   made: Seq(Events), journal: Seq(Events), evicted: 0 .. MaxOutput + 1]

(* `wire` holds the events sent and not yet received, `cursor` what envd   *)
(* has sent.  A stream that is over says how; its headers, the identity of *)
(* the journal, may have been lost with it.  A stream that is not          *)
(* `replayed` follows the process itself and never misses a record.        *)
Streams ==
  [over: {"no", "eof", "broken", "refused"}, headers: 0 .. MaxUpgrades + 1,
   wire: Seq(Events), cursor: 0 .. MaxOutput + 1, first: BOOLEAN, replayed: BOOLEAN]

(* processRecoveryState, and where Run is.  `cancelled` is the state of    *)
(* its context.  No code reads `lost`, the streams and connections that    *)
(* died, up to one more than the client tries, nor `refused`: the caller's *)
(* emit has failed.                                                        *)
Runs ==
  [at: {"idle", "start", "reconnect", "recover", "connect", "await", "done"},
   journalID: 0 .. MaxUpgrades + 1, committed: 0 .. MaxOutput + 1,
   started: BOOLEAN, attempt: 0 .. processReconnectMaxAttempts,
   emitted: Seq(Events), cancelled: BOOLEAN, terminal: BOOLEAN, refused: BOOLEAN,
   lost: 0 .. processReconnectMaxAttempts + 1,
   result: {"none", "ok", "incomplete", "rejected", "failed"}]

NoProcess(replay) ==
  [kept |-> "no", replay |-> replay, gen |-> 1, made |-> <<>>, journal |-> <<>>, evicted |-> 0]

NoStream == [over |-> "eof", headers |-> 0, wire |-> <<>>, cursor |-> 0, first |-> TRUE,
             replayed |-> FALSE]

NoRun ==
  [at |-> "idle", journalID |-> 0, committed |-> 0, started |-> FALSE, attempt |-> 0,
   emitted |-> <<>>, cancelled |-> FALSE, terminal |-> FALSE, refused |-> FALSE,
   lost |-> 0, result |-> "none"]

-----------------------------------------------------------------------------
(* envd.                                                                   *)

(* Append: the journal keeps its last JournalLimit records.                *)
Append1(e) ==
  LET grown == Append(proc.journal, e)
      over  == Len(grown) - JournalLimit
  IN [proc EXCEPT !.made = Append(@, e), !.journal = grown,
                  !.evicted = IF over > @ THEN over ELSE @]

Output ==
  /\ proc.kept = "live"
  /\ \/ /\ Len(proc.made) < MaxOutput
        /\ proc' = Append1(Len(proc.made) + 1)
     \/ proc' = [Append1(End) EXCEPT !.kept = "retained"]
  /\ UNCHANGED <<stream, run>>

(* terminatedRetentionTTL passed.                                          *)
Evict ==
  /\ proc.kept = "retained"
  /\ proc' = [proc EXCEPT !.kept = "gone"]
  /\ UNCHANGED <<stream, run>>

Open == stream.over = "no"

Terminal == proc.journal # <<>> /\ Last(proc.journal) = End

(* streamJournal: the next record after the cursor, the end of a terminal  *)
(* journal, or the refusal of a cursor that was evicted.                   *)
streamJournal ==
  /\ Open
  /\ \/ /\ stream.cursor >= proc.evicted \/ ~stream.replayed
        /\ stream.cursor < Len(proc.journal)
        /\ stream' = [stream EXCEPT !.wire = Append(@, proc.journal[stream.cursor + 1]),
                                    !.cursor = @ + 1]
     \/ /\ stream.cursor = Len(proc.journal) /\ Terminal
        /\ stream' = [stream EXCEPT !.over = "eof"]
     \/ /\ stream.cursor < proc.evicted /\ stream.replayed
        /\ stream' = [stream EXCEPT !.over = "refused"]
  /\ UNCHANGED <<proc, run>>

(* A stream that dies loses some of what was on its way and, if nothing    *)
(* arrived, perhaps its headers; one that ends early but cleanly has told  *)
(* its headers.                                                            *)
Broken(how) ==
  \E n \in 0 .. Len(stream.wire), h \in {0, stream.headers} :
     /\ h = stream.headers \/ (n = 0 /\ stream.first /\ how = "broken")
     /\ stream' = [stream EXCEPT !.over = how, !.wire = SubSeq(@, 1, n), !.headers = h]

Died(r) ==
  [r EXCEPT !.lost = IF @ > processReconnectMaxAttempts THEN @ ELSE @ + 1]

Break ==
  /\ Open
  /\ \E how \in {"eof", "broken"} : Broken(how)
  /\ run' = Died(run)
  /\ UNCHANGED proc

(* ResumeFromHandover: the process lives on with a new, empty journal; of  *)
(* one that has ended only the end is restored.                            *)
Upgrade ==
  /\ proc.kept \in {"live", "retained"} /\ proc.gen <= MaxUpgrades
  /\ proc' = [proc EXCEPT !.gen = @ + 1, !.evicted = 0,
                          !.journal = IF proc.kept = "live" THEN <<>> ELSE <<End>>]
  /\ IF Open THEN Broken("broken") ELSE UNCHANGED stream
  /\ UNCHANGED run

(* The deadline of the command, the end of its request, or the deletion of *)
(* its sandbox.                                                            *)
Cancel ==
  /\ run.at \notin {"idle", "done"} /\ ~run.cancelled
  /\ run' = [run EXCEPT !.cancelled = TRUE]
  /\ IF Open THEN Broken("broken") ELSE UNCHANGED stream
  /\ UNCHANGED proc

-----------------------------------------------------------------------------
(* The client.                                                             *)

Return(result) == [run EXCEPT !.at = "done", !.result = result]

(* A stream as envd opens it, with its synthetic Start.                    *)
Opened(cursor, replayed) ==
  [over |-> "no", headers |-> IF proc.replay THEN proc.gen ELSE 0, wire |-> <<Start>>,
   cursor |-> cursor, first |-> TRUE, replayed |-> replayed]

(* A stream that envd refuses for good, or that dies before it opens.      *)
Closed(how) == [NoStream EXCEPT !.over = how]

(* client.Start: the process may have been started although the call       *)
(* fails; it is never started again.                                       *)
StartProcess ==
  /\ run.at = "idle"
  /\ \/ /\ proc' = [proc EXCEPT !.kept = "live"]
        /\ stream' = Opened(0, proc.replay)
        /\ run' = [run EXCEPT !.at = "start"]
     \/ /\ \E kept \in {"no", "live"} : proc' = [proc EXCEPT !.kept = kept]
        /\ run' = Return("failed")
        /\ UNCHANGED stream

(* Fault variant: a record without bytes is not counted.                   *)
EmittedUncounted(r, e) ==
  [r EXCEPT !.emitted = IF e \in Blank THEN @ ELSE Append(@, e),
            !.committed = IF e = Start \/ e \in Blank THEN @ ELSE @ + 1,
            !.started = @ \/ e = Start]

(* The caller took the event.  Start has no number in the journal.         *)
Emitted(r, e) ==
  [r EXCEPT !.emitted = IF e \in Blank THEN @ ELSE Append(@, e),
            !.committed = IF e = Start THEN @ ELSE @ + 1,
            !.started = @ \/ e = Start]

Finished(r, e) ==
  IF e = End THEN [r EXCEPT !.at = "done", !.result = "ok"] ELSE r

Received == stream' = [stream EXCEPT !.wire = Tail(@), !.first = FALSE]

(* The caller did not: emit's error ends the command.                      *)
Refused(result) == [Return(result) EXCEPT !.refused = TRUE]

(* Run's loop, which returns emit's error as it is.                        *)
Receive ==
  /\ run.at = "start" /\ stream.wire # <<>>
  /\ LET e == Head(stream.wire)
         r == [run EXCEPT !.journalID = stream.headers]
     IN \/ run' = Finished(Emitted(r, e), e)
        \/ e \notin Blank /\ run' = Refused("rejected")
  /\ Received /\ UNCHANGED proc

(* After the loop.  The end of the context is final; otherwise the journal *)
(* decides how to go on.                                                   *)
StreamEnded ==
  /\ run.at = "start" /\ ~Open /\ stream.wire = <<>>
  /\ run' = IF run.cancelled THEN Return("failed")
            ELSE [run EXCEPT !.journalID = stream.headers,
                             !.at = IF stream.headers # 0 THEN "reconnect" ELSE "connect"]
  /\ UNCHANGED <<proc, stream>>

(* envd serves a cursor only from the journal it belongs to, and only if   *)
(* every record after it is still there (validateReplayRequest,            *)
(* ValidateCursor).                                                        *)
Serves(journalID, after) ==
  /\ proc.kept \in {"live", "retained"} /\ proc.gen = journalID
  /\ after \in proc.evicted .. Len(proc.journal)

(* The head of recoverGuestProcess's loop, and its Connect.                *)
Connecting(attempts, counted) ==
  /\ run.at = "reconnect"
  /\ IF run.attempt = attempts \/ run.cancelled
     THEN run' = Return("incomplete") /\ UNCHANGED stream
     ELSE LET r == [run EXCEPT !.at = "recover", !.attempt = @ + counted]
          IN \/ /\ run' = Died(r)
                /\ stream' = Closed("broken")
             \/ /\ run' = r
                /\ stream' = IF Serves(run.journalID, run.committed)
                             THEN Opened(run.committed, TRUE) ELSE Closed("refused")
  /\ UNCHANGED proc

(* Fault variants: a loop without a count, and one attempt less.           *)
ReconnectUncounted == Connecting(processReconnectMaxAttempts, 0)

ReconnectOneLess == Connecting(processReconnectMaxAttempts - 1, 1)

Reconnect == Connecting(processReconnectMaxAttempts, 1)

(* acceptRecoveredProcessEvent, after the check of the stream's headers.   *)
(* The Start of a reconnect is passed on only if the first was lost.  Run  *)
(* joins every error of the recovery, that of emit included, with          *)
(* errGuestProcessOutputIncomplete.                                        *)
acceptRecoveredProcessEvent ==
  /\ run.at = "recover" /\ stream.wire # <<>>
  /\ LET e == Head(stream.wire)
     IN run' \in IF \/ stream.first /\ stream.headers # run.journalID
                    \/ e # Start /\ ~run.started
                 THEN {Return("incomplete")}
                 ELSE IF e = Start /\ run.started THEN {run}
                 ELSE {Finished(Emitted(run, e), e)}
                      \cup (IF e \in Blank THEN {} ELSE {Refused("incomplete")})
  /\ Received /\ UNCHANGED proc

(* The end of a reconnected stream: a refusal, and an empty stream without *)
(* the journal's identity, are final; anything else is tried again.        *)
RecoveredStreamEnded ==
  /\ run.at = "recover" /\ ~Open /\ stream.wire = <<>>
  /\ run' = IF \/ stream.over = "refused"
               \/ stream.over = "eof" /\ stream.first /\ stream.headers # run.journalID
            THEN Return("incomplete") ELSE [run EXCEPT !.at = "reconnect"]
  /\ UNCHANGED <<proc, stream>>

(* awaitGuestProcessTerminal follows the process without a journal, passes *)
(* nothing on, and never reports success.                                  *)
awaitGuestProcessTerminal ==
  \/ /\ run.at = "connect"
     /\ \/ run' = Return("failed") /\ UNCHANGED stream
        \/ /\ ~run.cancelled /\ proc.kept \in {"live", "retained"}
           /\ run' = [run EXCEPT !.at = "await"]
           /\ stream' = Opened(Len(proc.journal) - IF Terminal THEN 1 ELSE 0, FALSE)
  \/ /\ run.at = "await" /\ stream.wire # <<>>
     /\ run' = [run EXCEPT !.terminal = Head(stream.wire) = End]
     /\ Received
  \/ /\ run.at = "await" /\ ~Open /\ stream.wire = <<>>
     /\ run' = Return(IF stream.over = "eof" /\ run.terminal THEN "incomplete" ELSE "failed")
     /\ UNCHANGED stream

AwaitTerminal == awaitGuestProcessTerminal /\ UNCHANGED proc

ProcessInit ==
  /\ \E replay \in BOOLEAN : proc = NoProcess(replay)
  /\ stream = NoStream /\ run = NoRun

ClientStep ==
  \/ Receive \/ StreamEnded \/ Reconnect \/ acceptRecoveredProcessEvent
  \/ RecoveredStreamEnded \/ AwaitTerminal

-----------------------------------------------------------------------------
(* What the caller should see of the process: its Start and every record   *)
(* with bytes.                                                             *)
Expected == <<Start>> \o SelectSeq(proc.made, LAMBDA e : e \notin Blank)

(* Whatever dies and however often the client reconnects, the caller has   *)
(* been given a prefix of the process's output: nothing twice, nothing out *)
(* of order and nothing left out (guest.go Run, recoverGuestProcess).  The *)
(* end comes last, so a command that is reported to have succeeded has     *)
(* ended and its whole output was passed on.                               *)
OutputExact ==
  /\ IsPrefix(run.emitted, Expected)
  /\ run.result = "ok" => run.emitted = Expected /\ Last(proc.made) = End

(* A command is reported as incomplete only for a reason: its context      *)
(* ended, its caller refused an event of the recovery, no journal was      *)
(* told, the journal is another one or no longer holds the suffix, the     *)
(* process is no longer known, or the first stream and every one of the    *)
(* processReconnectMaxAttempts reconnections died.                         *)
IncompleteForAReason ==
  run.result = "incomplete" =>
     \/ run.cancelled \/ run.refused \/ run.terminal
     \/ proc.gen # run.journalID \/ proc.kept = "gone" \/ run.committed < proc.evicted
     \/ run.lost > processReconnectMaxAttempts

(* Once the process has ended, or the command's context has, the caller    *)
(* gets its answer: reconnecting does not go on for ever.                  *)
RunSettles == (Terminal \/ run.cancelled) /\ run.at # "idle" ~> run.result # "none"
=============================================================================
