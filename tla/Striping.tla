------------------------------ MODULE Striping ------------------------------
(***************************************************************************)
(* A striped download (client.rs: download_striped_inner and               *)
(* fill_holes_striped) from several servers of the same blob.  The steps   *)
(* before and after the rounds (resume or fresh start; sync, late check,   *)
(* rename) are those of the single-origin download, whose crash windows    *)
(* are the subject of module Download: here each of the two is one step,   *)
(* so that what is checked and proved of this module assumes that no crash *)
(* falls inside them (client.rs: 804-807 and 828-834).                     *)
(*                                                                         *)
(* Holders are 1..H in the order of the caller's list.  Slices are         *)
(* verified against the root of Target on arrival.                         *)
(***************************************************************************)
EXTENDS BlobServer

CONSTANTS
  H,             \* number of holders
  Count,         \* chunks of the blob
  Own,           \* the client's max_chunks_per_query
  Attempts,      \* retry.max_attempts
  RejectLimit,   \* rejected replies after which a holder is dropped
  Claims,        \* Claims[h]: the chunks its availability names
  Refuse,        \* Overwrite::Refuse
  FaultSets,     \* which holders may be faulty together
  Restless,      \* servers whose files and registrations may change
  MaxFaults,     \* bound on crashes, cancellations and owners' doings together
  Target         \* the version the caller wants

ASSUME StripingAssumption ==
  /\ H \in Nat \ {0} /\ Servers = 1..H /\ Count \in Nat /\ Own \in Nat \ {0}
  /\ Attempts \in Nat /\ RejectLimit \in Nat \ {0} /\ MaxFaults \in Nat /\ Target \in Versions

VARIABLES
  faulty,        \* holders that may change, vanish, lose or forge replies
  faults,
  pc,            \* "idle", "top", "deal", "recv", "finish"
  outcome,       \* of the last call: None or one of Outcomes
  dest,          \* the destination: None, "old", or the blob, "whole" or "holed"
  cancel,
  bits,          \* ResumeState in memory
  written,       \* chunks written to the part file
  synced,        \* those of them a crash leaves
  sidecar,       \* the saved bitfield, or None
  rejects, noProgress, before,
  todo, cursor, dealt, assign,   \* the dealing loop
  job            \* job[h]: no query, the words of one, or what is left to send

clientVars == <<pc, outcome, dest, cancel, bits, written, synced, sidecar,
                rejects, noProgress, before, todo, cursor, dealt, assign, job>>
world == <<faulty, faults, serverVars>>
vars == <<clientVars, world>>

All == 0..(Count-1)
Outcomes == {"ok", "incomplete", "cancelled", "exists", "crashed"}
ASSUME MarkerAssumption ==
  None \notin Outcomes \cup {"old", "whole", "holed"} /\ \A S \in SUBSET All : S # None
NoQuery == <<"none">>
Asking(words) == <<"asking", words>>
Serving(left, root) == <<"serving", left, root>>
Idle == [h \in Servers |-> NoQuery]

-----------------------------------------------------------------------------
(* download_striped_inner *)

NotDealing == UNCHANGED <<todo, cursor, dealt, assign>>

\* The locals of a call that has ended.
Forgotten ==
  /\ pc' = "idle" /\ bits' = {} /\ job' = Idle
  /\ rejects' = [h \in Servers |-> 0] /\ noProgress' = 0 /\ before' = 0

\* Resume from the sidecar, or create the part file and save a fresh one.
Call ==
  /\ pc = "idle"
  /\ IF Refuse /\ dest # None
       THEN /\ outcome' = "exists"
            /\ UNCHANGED <<pc, bits, written, synced, sidecar>>
       ELSE /\ pc' = "top" /\ outcome' = None
            /\ \/ sidecar # None /\ bits' = sidecar /\ UNCHANGED <<written, synced, sidecar>>
               \/ sidecar = None /\ bits' = {} /\ written' = {} /\ synced' = {} /\ sidecar' = {}
  /\ cancel' = FALSE
  /\ NotDealing
  /\ UNCHANGED <<dest, rejects, noProgress, before, job, world>>

\* After the rounds: commit, save, sync, then the late check and the rename.
Finish ==
  /\ pc = "finish" /\ Forgotten
  /\ IF Refuse /\ dest # None
       THEN /\ outcome' = "exists" /\ synced' = written /\ sidecar' = bits
            /\ UNCHANGED <<dest, written>>
       ELSE /\ outcome' = "ok" /\ dest' = IF written = All THEN "whole" ELSE "holed"
            /\ written' = {} /\ synced' = {} /\ sidecar' = None
  /\ NotDealing
  /\ UNCHANGED <<cancel, world>>

-----------------------------------------------------------------------------
(* fill_holes_striped *)

\* What the first holder's manifest allows.
Budget == LET b == IF Cap[1] < Own THEN Cap[1] ELSE Own IN IF b = 0 THEN 1 ELSE b

\* The holders not dropped yet, in the order of the caller's list.
Trusted == {h \in Servers : rejects[h] < RejectLimit}
Live == Retain([k \in 1..H |-> k], Trusted)

MissingSkipsFirst == Retain([k \in 1..Count |-> k], All \ bits)
Missing == Retain([k \in 1..Count |-> k - 1], All \ bits)

Endgame == Len(Missing) <= 2 * (IF Len(Live) > 2 THEN Len(Live) ELSE 2)
Copies == IF Endgame /\ Len(Live) >= 2 THEN 2 ELSE 1

Stopped(why, saved) ==
  /\ Forgotten /\ outcome' = why
  /\ IF saved THEN synced' = written /\ sidecar' = bits ELSE UNCHANGED <<synced, sidecar>>
  /\ NotDealing
  /\ UNCHANGED <<dest, cancel, written, world>>

\* The top of a round: complete, cancelled, nobody left to ask, or deal.
Round ==
  /\ pc = "top"
  /\ \/ bits = All /\ pc' = "finish"
        /\ UNCHANGED <<outcome, before, bits, synced, sidecar, todo, cursor, dealt, assign,
                       rejects, noProgress, job, dest, cancel, written, world>>
     \/ bits # All /\ cancel /\ Stopped("cancelled", TRUE)
     \/ bits # All /\ ~cancel /\ Live = <<>> /\ Stopped("incomplete", FALSE)
     \/ /\ bits # All /\ ~cancel /\ Live # <<>>
        /\ pc' = "deal" /\ before' = Cardinality(bits)
        /\ todo' = Truncated(Missing, Budget * Len(Live))
        /\ cursor' = 0 /\ dealt' = 0 /\ assign' = [h \in Servers |-> <<>>]
        /\ UNCHANGED <<outcome, bits, synced, sidecar, rejects, noProgress, job, dest,
                       cancel, written, world>>

DealOnAndOn ==
  /\ pc = "deal" /\ todo # <<>>
  /\ LET h     == Live[(cursor % Len(Live)) + 1]
         takes == Head(todo) \in Claims[h] /\ Len(assign[h]) < Budget
         n     == IF takes THEN dealt + 1 ELSE dealt
         over  == n >= Copies
     IN  /\ assign' = IF takes THEN [assign EXCEPT ![h] = Append(@, Head(todo))] ELSE assign
         /\ cursor' = IF over /\ Len(todo) = 1 THEN 0 ELSE (cursor + 1) % Len(Live)
         /\ dealt' = IF over THEN 0 ELSE n
         /\ todo' = IF over THEN Tail(todo) ELSE todo
  /\ UNCHANGED <<pc, outcome, dest, cancel, bits, written, synced, sidecar,
                 rejects, noProgress, before, job, world>>

\* One turn of the dealing loop: the next live holder takes the chunk if it
\* claims it and has room.  A chunk is done when dealt often enough, or when a
\* whole rotation ended with nobody having taken it.
Deal ==
  /\ pc = "deal" /\ todo # <<>>
  /\ LET h     == Live[(cursor % Len(Live)) + 1]
         takes == Head(todo) \in Claims[h] /\ Len(assign[h]) < Budget
         n     == IF takes THEN dealt + 1 ELSE dealt
         over  == n >= Copies \/ ((cursor + 1) % Len(Live) = 0 /\ n = 0)
     IN  /\ assign' = IF takes THEN [assign EXCEPT ![h] = Append(@, Head(todo))] ELSE assign
         /\ cursor' = IF over /\ Len(todo) = 1 THEN 0 ELSE (cursor + 1) % Len(Live)
         /\ dealt' = IF over THEN 0 ELSE n
         /\ todo' = IF over THEN Tail(todo) ELSE todo
  /\ UNCHANGED <<pc, outcome, dest, cancel, bits, written, synced, sidecar,
                 rejects, noProgress, before, job, world>>

\* Every holder with a share is asked for it.
Ask ==
  /\ pc = "deal" /\ todo = <<>> /\ pc' = "recv"
  /\ job' = [h \in Servers |-> IF assign[h] = <<>> THEN NoQuery
                               ELSE Asking(FormatRanges(Coalesce(assign[h])))]
  /\ assign' = [h \in Servers |-> <<>>]
  /\ UNCHANGED <<outcome, dest, cancel, bits, written, synced, sidecar, rejects,
                 noProgress, before, todo, cursor, dealt, world>>

AcceptMarked(i) == bits' = bits \cup {i} /\ UNCHANGED written
\* A verified slice of a chunk that is still missing is written and marked.
Accept(i) ==
  IF i \notin All \/ i \in bits THEN UNCHANGED <<bits, written>>
  ELSE bits' = bits \cup {i} /\ written' = written \cup {i}

\* Observed while waiting for the holders; their queries are dropped.
RecvCancelled == pc = "recv" /\ cancel /\ Stopped("cancelled", TRUE)

RoundEndPatient ==
  /\ pc = "recv" /\ job = Idle
  /\ pc' = "top" /\ synced' = written /\ sidecar' = bits
  /\ noProgress' = IF Cardinality(bits) = before THEN noProgress + 1 ELSE 0
  /\ NotDealing
  /\ UNCHANGED <<outcome, bits, rejects, before, job, dest, cancel, written, world>>

RoundEndUnsynced ==
  /\ pc = "recv" /\ job = Idle
  /\ pc' = "top" /\ sidecar' = bits
  /\ NotDealing
  /\ UNCHANGED <<outcome, bits, synced, rejects, noProgress, before, job,
                 dest, cancel, written, world>>

\* Every holder's query has ended: commit, save, and judge the round.
RoundEnd ==
  /\ pc = "recv" /\ job = Idle
  /\ synced' = written /\ sidecar' = bits
  /\ IF bits # All /\ Cardinality(bits) = before /\ noProgress + 1 >= Attempts
       THEN Forgotten /\ outcome' = "incomplete"
       ELSE /\ pc' = "top" /\ UNCHANGED <<outcome, bits, rejects, before, job>>
            /\ noProgress' = IF bits # All /\ Cardinality(bits) = before THEN noProgress + 1 ELSE 0
  /\ NotDealing
  /\ UNCHANGED <<dest, cancel, written, world>>

-----------------------------------------------------------------------------
(* The holders' side of a query, and what the network makes of it *)

OnlyJob(h, j) ==
  /\ job' = [job EXCEPT ![h] = j]
  /\ UNCHANGED <<pc, outcome, dest, cancel, synced, sidecar, noProgress, before,
                 todo, cursor, dealt, assign, world>>

\* serve_one takes a query: it is refused or streamed.
Take(h) ==
  /\ job[h][1] = "asking"
  /\ LET words == job[h][2]
     IN  OnlyJob(h, IF Admits(h, words, Count)
                      THEN Serving(Indices(words), registry[h].root) ELSE NoQuery)
  /\ UNCHANGED <<bits, written, rejects>>

\* The next slice arrives; of another root it does not verify.
Reply(h) ==
  /\ job[h][1] = "serving" /\ Encodes(h, job[h][3])
  /\ LET rest == Tail(job[h][2])
     IN  OnlyJob(h, IF rest = <<>> THEN NoQuery ELSE Serving(rest, job[h][3]))
  /\ IF job[h][3] = Target
       THEN Accept(Head(job[h][2])) /\ UNCHANGED rejects
       ELSE /\ rejects' = [rejects EXCEPT ![h] = IF @ < RejectLimit THEN @ + 1 ELSE @]
            /\ UNCHANGED <<bits, written>>

\* encode_slice fails: the stream ends.
Broken(h) ==
  /\ job[h][1] = "serving" /\ ~Encodes(h, job[h][3])
  /\ OnlyJob(h, NoQuery) /\ UNCHANGED <<bits, written, rejects>>

\* A reply is lost, or the query times out.
Lose(h) ==
  /\ h \in faulty /\ job[h] # NoQuery
  /\ \/ OnlyJob(h, NoQuery)
     \/ /\ job[h][1] = "serving" /\ Len(job[h][2]) > 1
        /\ OnlyJob(h, Serving(Tail(job[h][2]), job[h][3]))
  /\ UNCHANGED <<bits, written, rejects>>

\* A reply that does not verify.
Forge(h) ==
  /\ h \in faulty /\ job[h] # NoQuery /\ rejects[h] < RejectLimit
  /\ rejects' = [rejects EXCEPT ![h] = @ + 1]
  /\ OnlyJob(h, job[h]) /\ UNCHANGED <<bits, written>>

Answer(h) == Take(h) \/ Reply(h) \/ Broken(h)

-----------------------------------------------------------------------------
(* The rest of the world *)

Fault == faults < MaxFaults /\ faults' = faults + 1 /\ UNCHANGED faulty

Server(s) ==
  /\ s \in faulty \cap Restless
  /\ \/ ((\E v \in Versions : Change(s, v)) \/ RegisterHash(s) \/ Unregister(s)) /\ Fault
     \/ (Hashed(s) \/ FinishRegister(s)) /\ UNCHANGED <<faulty, faults>>
  /\ UNCHANGED clientVars

RequestCancel ==
  /\ pc # "idle" /\ ~cancel /\ cancel' = TRUE /\ Fault
  /\ UNCHANGED <<pc, outcome, dest, bits, written, synced, sidecar, rejects, noProgress, before,
                 todo, cursor, dealt, assign, job, serverVars>>

\* The process dies (or the future is dropped) between two steps of the
\* rounds: what was not synced is gone.
Crash ==
  /\ pc \in {"top", "recv"} /\ Fault
  /\ Forgotten /\ outcome' = "crashed" /\ written' = synced /\ cancel' = FALSE
  /\ NotDealing
  /\ UNCHANGED <<dest, synced, sidecar, serverVars>>

\* Another process creates the destination.
DestAppears ==
  /\ dest = None /\ dest' = "old" /\ Fault
  /\ UNCHANGED <<pc, outcome, cancel, bits, written, synced, sidecar, rejects,
                 noProgress, before, todo, cursor, dealt, assign, job, serverVars>>

Init ==
  /\ ServerInit(Target) /\ faulty \in FaultSets /\ faults = 0
  /\ pc = "idle" /\ outcome = None /\ dest = None /\ cancel = FALSE
  /\ bits = {} /\ written = {} /\ synced = {} /\ sidecar = None
  /\ rejects = [h \in Servers |-> 0] /\ noProgress = 0 /\ before = 0
  /\ todo = <<>> /\ cursor = 0 /\ dealt = 0 /\ assign = [h \in Servers |-> <<>>]
  /\ job = Idle

Client == Round \/ Deal \/ Ask \/ RecvCancelled \/ RoundEnd \/ Finish

Next ==
  \/ (outcome # "ok" /\ Call) \/ Client \/ RequestCancel \/ Crash \/ DestAppears
  \/ \E h \in Servers : Answer(h) \/ Lose(h) \/ Forge(h) \/ Server(h)

\* The client runs, and a query ends: answered, refused or timed out.
Fairness == WF_vars(Client) /\ \A h \in Servers : WF_vars(Answer(h))

Spec == Init /\ [][Next]_vars /\ Fairness

-----------------------------------------------------------------------------
(* Properties *)

\* Shape of the locals of fill_holes_striped; the rotation and the count of
\* rounds without progress stay within their bounds.
TypeOK ==
  /\ pc \in {"idle", "top", "deal", "recv", "finish"}
  /\ bits \subseteq All /\ written \subseteq All /\ synced \subseteq All
  /\ sidecar = None \/ sidecar \subseteq All
  /\ cursor \in 0..(H-1) /\ dealt \in 0..2 /\ noProgress \in 0..Attempts

\* A striped call that returns Ok has put the whole blob at the destination,
\* whatever the holders did and wherever in its rounds an earlier call was cut
\* off.  Assumed: no crash falls inside the start or the end of a call, which
\* are one step each here (client.rs: 804-807 and 828-834), so that no sidecar
\* is left over a part that was created anew.
StripedExact == outcome = "ok" => dest = "whole"

\* While one of the first two holders of the list stays registered, unchanged
\* and reachable, and takes queries as long as the first one's manifest allows,
\* every round brings a chunk: the call never gives up as Incomplete, whatever
\* the other holders lose, forge, refuse or replace.  (Where all claim all: a
\* chunk that only one holder claims may be dealt to it twice and its query
\* refused.  The third holder of a list may never be dealt the last chunks.)
HonestSuffices ==
  /\ \A h \in Servers : Claims[h] = All
  /\ \E h \in Servers \ faulty : h <= 2 /\ Cap[h] >= Budget
  => outcome # "incomplete"

\* Every call ends: neither the dealing of the chunks nor the wait for the
\* holders' answers can go on for ever.
CallEnds == (pc # "idle") ~> (pc = "idle")

\* A striped download implements Transfer: its record on disk never names a
\* chunk the disk could lose, across rounds, cancellation and crashes, except
\* those inside the start or the end of a call (client.rs: 804-807 and
\* 828-834), one step each here.
T == INSTANCE Transfer WITH
  Chunks <- All,
  status <- IF pc # "idle" THEN "running"
            ELSE CASE outcome = None -> "idle" [] outcome = "ok" -> "ok" [] OTHER -> "failed",
  held   <- bits,
  disk   <- synced,
  kept   <- IF sidecar = None THEN {} ELSE sidecar

ImplementsTransfer == T!Spec
=============================================================================
