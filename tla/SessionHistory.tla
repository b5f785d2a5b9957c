---------------------------- MODULE SessionHistory ----------------------------
(* The event history of one daemon session: the session commit that appends,  *)
(* trims, saves and publishes it (src/src/web.rs, src/src/session_store.rs),   *)
(* the terminals that watch it over the daemon's socket, and the restore after *)
(* a daemon stop.  A commit whose save fails changes nothing and is no step.   *)
EXTENDS Naturals, Sequences, FiniteSets

CONSTANTS
    Watches,     \* terminals
    MaxHistory,  \* MAX_HISTORY_EVENTS, and the bound of a restore
    Capacity,    \* of the broadcast channel
    MaxEvents,   \* events of the session
    MaxTouches,  \* commits without an event
    MaxStops,    \* stops of the daemon
    LongRuns     \* whether a run may outlast the history it began in

ASSUME HistoryHoldsTwo == MaxHistory \in Nat /\ MaxHistory >= 2

ASSUME ChannelHoldsOne == Capacity \in Nat \ {0}

ASSUME HistoryBoundsAreNaturals == {MaxEvents, MaxTouches, MaxStops} \subseteq Nat

ASSUME RunLengthIsKnown == LongRuns \in BOOLEAN

VARIABLES
    session,  \* active and history; history {} once a restore has refused it
    saved,    \* the history in the session's Git note
    sink,     \* terminal_precursor_keys of the running driver
    due,      \* commits that have still to publish Finished
    watches,  \* what each terminal's stream has sent and will receive
    env       \* bounds

vars == <<session, saved, sink, due, watches, env>>

-----------------------------------------------------------------------------
(* The history.  An event is named by its sequence; refs are the earlier       *)
(* events it refers to: those it supersedes, the call of a result, the check   *)
(* or commit a message cites.                                                  *)

Entry == [seq : Nat \ {0}, refs : SUBSET Nat, started : BOOLEAN]

Seqs(h) == {e.seq : e \in h}

LastSeq(h) == IF h = {} THEN 0 ELSE CHOOSE n \in Seqs(h) : \A m \in Seqs(h) : m <= n

Newest(h, n) == {e \in h : Cardinality({f \in h : f.seq > e.seq}) < n}

StartOf(h) == {e \in h : e.started /\ \A f \in h : e.seq <= f.seq}

Kept(h) == IF StartOf(h) # {} THEN StartOf(h) \cup Newest(h, MaxHistory - 1)
           ELSE Newest(h, MaxHistory)

ClosedIn(s, h) == \A e \in s : {f \in h : f.seq \in e.refs} \subseteq s

\* Mutant of TrimEventHistory: the bound is kept whatever refers to what.
TrimToTheBound(h) == IF Cardinality(h) <= MaxHistory THEN h ELSE Kept(h)

\* What is kept, and all it refers to: the least closed set that holds it
TrimEventHistory(h) ==
    LET kept == Kept(h)
        closed == {s \in SUBSET h : kept \subseteq s /\ ClosedIn(s, h)}
    IN  IF Cardinality(h) <= MaxHistory THEN h ELSE {e \in h : \A s \in closed : e \in s}

Appended(h, refs, started) ==
    TrimEventHistory(h \cup {[seq |-> LastSeq(h) + 1, refs |-> refs, started |-> started]})

\* parse_session: an event refers only to events before it that are there
Restorable(h) ==
    \A e \in h : \A k \in e.refs : k < e.seq /\ k \in Seqs(h)

-----------------------------------------------------------------------------
(* The channel and a terminal's stream                                        *)

Publication == [kind : {"Event", "Snapshot", "Finished"}, seq : Nat]

Event(n) == [kind |-> "Event", seq |-> n]

Snapshot == [kind |-> "Snapshot", seq |-> 0]

Finished == [kind |-> "Finished", seq |-> 0]

\* A receiver that is behind loses the oldest publications, and learns that it has.
Heard(w, p) ==
    LET queue == Append(w.queue, p)
    IN  IF w.phase # "open" THEN w
        ELSE IF Len(queue) <= Capacity THEN [w EXCEPT !.queue = queue]
        ELSE [w EXCEPT !.queue = Tail(queue), !.lagged = TRUE]

\* What a commit broadcasts: its events, then a snapshot
Broadcast(first, last) ==
    [t \in Watches |->
        LET one == IF first <= last THEN Heard(watches[t], Event(first)) ELSE watches[t]
            two == IF first < last THEN Heard(one, Event(last)) ELSE one
        IN  Heard(two, Snapshot)]

Gapless(seqs, last) == \A n \in seqs : \A m \in last + 1 .. n : m \in seqs

Missing(h, last) == {n \in Seqs(h) : n > last}

\* Mutant of NeedsReset: only a gap before the first event is looked for.
NeedsResetAtStart(seqs, last) == seqs # {} /\ last + 1 \notin seqs

\* terminal_replay_after: whether the replay says that events may be missing
NeedsReset(seqs, last) == ~Gapless(seqs, last)

\* write_terminal_replay, and consume_watch_frames at the other end: a plain event
\* must follow the one before it, a reset may leave a gap
Replayed(w, h) ==
    LET seqs == Missing(h, w.last)
    IN  IF ~NeedsReset(seqs, w.last) /\ ~Gapless(seqs, w.last)
        THEN [w EXCEPT !.phase = "refused"]
        ELSE [w EXCEPT !.last = IF seqs = {} THEN @ ELSE LastSeq(h),
                       !.seen = @ \cup seqs]

\* Whoever has ended has no stream any more.
Ended(w) == [w EXCEPT !.phase = IF @ = "open" THEN "finished" ELSE @,
                      !.queue = <<>>, !.lagged = FALSE]

-----------------------------------------------------------------------------
(* The session                                                                *)

NoWatch == [phase |-> "off", last |-> 0, seen |-> {}, queue |-> <<>>, lagged |-> FALSE]

\* start_session_inner: a session is created queued, with its first event
Init ==
    /\ \E started \in BOOLEAN :
           session = [active |-> TRUE,
                      history |-> {[seq |-> 1, refs |-> {}, started |-> started]}]
    /\ saved = session.history
    /\ sink = {}
    /\ due = 0
    /\ watches = [t \in Watches |-> NoWatch]
    /\ env = [touches |-> 0, stops |-> 0]

\* commit_staged_session_state_with_terminal, under the sessions lock
Commit(active, h) ==
    /\ session' = [active |-> active, history |-> h]
    /\ saved' = h
    /\ watches' = Broadcast(LastSeq(session.history) + 1, LastSeq(h))

Alive == session.history # {}

RoomFor(n) == LastSeq(session.history) + n <= MaxEvents

\* A run that is not long ends its workflow before its precursors are trimmed away.
InTime(keys, h) == LongRuns \/ keys \subseteq Seqs(h)

\* emit: an event of the run, or of a handler, that refers to at most one other
Emit ==
    /\ Alive /\ RoomFor(1)
    /\ \E refs \in {{}} \cup {{n} : n \in Seqs(session.history)} :
           LET h == Appended(session.history, refs, FALSE)
           IN  InTime(sink, h) /\ Commit(session.active, h)
    /\ UNCHANGED <<sink, due, env>>

\* emit_terminal_precursor: a correction that the workflow's end will supersede
EmitTerminalPrecursor ==
    /\ Alive /\ session.active /\ RoomFor(1)
    /\ LET h == Appended(session.history, {}, FALSE)
       IN  /\ InTime(sink, h)
           /\ Commit(TRUE, h)
    /\ sink' = sink \cup {LastSeq(session.history) + 1}
    /\ UNCHANGED <<due, env>>

\* delivery_terminal_outcome: take_terminal_precursor_keys, emit_superseding
WorkflowStops ==
    /\ Alive /\ session.active /\ RoomFor(1)
    /\ Commit(TRUE, Appended(session.history, sink, FALSE))
    /\ sink' = {}
    /\ UNCHANGED <<due, env>>

\* take_terminal_precursor_keys where a user's message sends the workflow back
PrecursorsAreDropped ==
    /\ Alive /\ sink # {}
    /\ sink' = {}
    /\ UNCHANGED <<session, saved, due, watches, env>>

\* The commit that leaves the watch's active states; the sink ends with its run.
TurnEnds ==
    /\ Alive /\ session.active /\ RoomFor(1)
    /\ Commit(FALSE, Appended(session.history, {}, FALSE))
    /\ sink' = {}
    /\ due' = due + 1
    /\ UNCHANGED env

\* A follow-up, a resume or a retry: the user's event and SessionStateChanged
TurnBegins ==
    /\ Alive /\ ~session.active /\ RoomFor(2)
    /\ Commit(TRUE, Appended(Appended(session.history, {}, FALSE), {}, FALSE))
    /\ UNCHANGED <<sink, due, env>>

\* A commit that has no event publishes its snapshot all the same.
Touch ==
    /\ Alive /\ env.touches < MaxTouches
    /\ Commit(session.active, session.history)
    /\ env' = [env EXCEPT !.touches = @ + 1]
    /\ UNCHANGED <<sink, due>>

\* finish_session_commit, after the sessions lock and the environment's cleanup
PublishFinished ==
    /\ due > 0
    /\ due' = due - 1
    /\ watches' = [t \in Watches |-> Heard(watches[t], Finished)]
    /\ UNCHANGED <<session, saved, sink, env>>

\* restore_project_sessions and session_from_persisted; the sockets are closed
DaemonRestart ==
    /\ Alive /\ env.stops < MaxStops
    /\ session' = [active |-> FALSE,
                   history |-> IF Restorable(saved) THEN TrimEventHistory(saved) ELSE {}]
    /\ sink' = {}
    /\ due' = 0
    /\ watches' = [t \in Watches |-> NoWatch]
    /\ env' = [env EXCEPT !.stops = @ + 1]
    /\ UNCHANGED saved

-----------------------------------------------------------------------------
(* The terminals.  What the socket carries is read in the order it is written, *)
(* so a frame is written and read in one step.                                *)

\* handle_session_watch: the history and the channel are taken under one lock, and
\* what was taken is replayed
Attach(t) ==
    /\ Alive /\ watches[t].phase = "off"
    /\ LET w == Replayed([NoWatch EXCEPT !.phase = "open"], session.history)
       IN  watches' = [watches EXCEPT ![t] = IF session.active THEN w ELSE Ended(w)]
    /\ UNCHANGED <<session, saved, sink, due, env>>

\* Mutant of Resyncs: a lagged receiver goes on without looking at the session.
ResyncsOnly(w) == Replayed(w, session.history)

\* A gap or a lag: the history is replayed, and the stream ends with the session
Resyncs(w) ==
    LET r == Replayed(w, session.history)
    IN  IF session.active THEN r ELSE Ended(r)

\* stream_session_watch, one publication
Receives(w) ==
    LET p == Head(w.queue)
        rest == [w EXCEPT !.queue = Tail(@)]
    IN  CASE p.kind = "Snapshot" -> rest
          [] p.kind = "Event" /\ p.seq <= w.last -> rest
          [] p.kind = "Event" /\ p.seq = w.last + 1 ->
                 [rest EXCEPT !.last = p.seq, !.seen = @ \cup {p.seq}]
          [] p.kind = "Event" /\ p.seq > w.last + 1 -> Resyncs(rest)
          [] p.kind = "Finished" -> Ended(Replayed(rest, session.history))

Streams(t) ==
    /\ watches[t].phase = "open"
    /\ \/ /\ watches[t].lagged
          /\ watches' = [watches EXCEPT ![t] = Resyncs([@ EXCEPT !.lagged = FALSE])]
       \/ /\ ~watches[t].lagged /\ watches[t].queue # <<>>
          /\ watches' = [watches EXCEPT ![t] = Receives(@)]
    /\ UNCHANGED <<session, saved, sink, due, env>>

Next ==
    \/ Emit \/ EmitTerminalPrecursor \/ WorkflowStops \/ PrecursorsAreDropped
    \/ TurnEnds \/ TurnBegins \/ Touch \/ PublishFinished \/ DaemonRestart
    \/ \E t \in Watches : Attach(t) \/ Streams(t)

Spec == Init /\ [][Next]_vars

\* A commit finishes what it began and a stream is read; nobody else has to act.
FairSpec ==
    /\ Spec
    /\ WF_vars(PublishFinished)
    /\ \A t \in Watches : WF_vars(Streams(t))

-----------------------------------------------------------------------------
(* Properties *)

\* The type invariant.
TypeOK ==
    /\ session \in [active : BOOLEAN, history : SUBSET Entry]
    /\ saved \in SUBSET Entry
    /\ sink \in SUBSET Nat
    /\ due \in Nat
    /\ watches \in [Watches ->
           [phase : {"off", "open", "refused", "finished"}, last : Nat, seen : SUBSET Nat,
            queue : Seq(Publication), lagged : BOOLEAN]]
    /\ env \in [touches : Nat, stops : Nat]

\* A terminal shows the session as it is stored: nothing a daemon stop could take
\* back, and of what the history retains nothing is skipped, over lags, trims,
\* resets and commits between a publication and its delivery; and its stream never
\* breaks the protocol that the terminal checks (daemon_client.rs:511).
WatchShowsTheHistory ==
    \A t \in Watches :
        LET w == watches[t]
        IN  /\ w.phase # "refused"
            /\ w.last <= LastSeq(saved)
            /\ \A n \in Seqs(session.history) : n <= w.last => n \in w.seen

\* However often the history is trimmed, at commits and at restores, what is saved
\* is a history that a restore accepts, as long as no run outlasts it.
StoredHistoryIsClosed == LongRuns \/ Restorable(saved)

\* A terminal that watches a session that has come to rest is told so: its
\* Finished is not lost to a lag, nor to the session's next turn.
WatchEnds ==
    \A t \in Watches :
        watches[t].phase = "open" /\ ~session.active
            ~> watches[t].phase # "open" \/ session.active

\* docs/architecture/user-contracts.md:410: "After a service restart, unfinished
\* daemon sessions restore as paused": no session is lost to a restart.
SessionSurvivesRestart == Alive

\* docs/architecture/overview.md:32: "terminal completion is announced only after
\* the final replay": the session a terminal was told is finished is at rest.
FinishIsFinal ==
    [][\A t \in Watches :
          watches[t].phase = "open" /\ watches'[t].phase = "finished" => ~session.active]_vars
=============================================================================
