---------------------------- MODULE HistoryProofs ----------------------------
(* What is saved of a session can be restored, for any bound on its history,   *)
(* any number of events, terminals and stops of the daemon.                    *)
EXTENDS SessionHistory, TLAPS, FiniteSetTheorems

IsLast(n, h) == n \in Seqs(h) /\ \A m \in Seqs(h) : m <= n

\* A history that a restore accepts, and that has a last event.
Closed(h) ==
    /\ h \subseteq Entry
    /\ \E n \in Seqs(h) : IsLast(n, h)
    /\ Restorable(h)

\* The daemon's history may be a trimmed one of what is saved; what its run will
\* supersede is in it, and nobody else supersedes anything.
HistoryInv ==
    LongRuns \/ /\ Closed(session.history)
                /\ Closed(saved)
                /\ sink \subseteq Seqs(session.history)
                /\ session.active \/ sink = {}

-----------------------------------------------------------------------------
(* Histories *)

\* LastSeq is the sequence of the last event.
LEMMA LastSeqIsLast ==
    ASSUME NEW h \in SUBSET Entry, NEW n, IsLast(n, h)
    PROVE  IsLast(LastSeq(h), h) /\ LastSeq(h) = n /\ n \in Nat
<1>1. Seqs(h) \subseteq Nat
  BY DEF Seqs, Entry
<1>2. h # {}
  BY DEF IsLast, Seqs
<1>3. \E k \in Seqs(h) : \A m \in Seqs(h) : m <= k
  BY DEF IsLast
<1>4. IsLast(LastSeq(h), h)
  BY <1>2, <1>3 DEF LastSeq, IsLast
<1>5. LastSeq(h) = n
  BY <1>1, <1>4 DEF IsLast
<1> QED BY <1>1, <1>4, <1>5 DEF IsLast

\* No trim cuts the last event off.
LEMMA NewestHoldsLast ==
    ASSUME NEW h \in SUBSET Entry, NEW e \in h, IsLast(e.seq, h), NEW n \in Nat \ {0}
    PROVE  e \in Newest(h, n)
<1>1. {f \in h : f.seq > e.seq} = {}
  <2> SUFFICES ASSUME NEW f \in h, f.seq > e.seq PROVE FALSE
    OBVIOUS
  <2>1. f.seq \in Nat /\ e.seq \in Nat /\ f.seq <= e.seq
    BY DEF IsLast, Seqs, Entry
  <2> QED BY <2>1
<1>2. Cardinality({f \in h : f.seq > e.seq}) = 0
  BY <1>1, FS_EmptySet
<1> QED BY <1>2 DEF Newest

\* A trim keeps the last event.
LEMMA TrimKeepsLast ==
    ASSUME NEW h \in SUBSET Entry, NEW n, IsLast(n, h)
    PROVE  IsLast(n, TrimEventHistory(h))
<1>1. PICK e \in h : e.seq = n
  BY DEF IsLast, Seqs
<1>2. e \in Kept(h)
  <2>1. MaxHistory \in Nat \ {0} /\ MaxHistory - 1 \in Nat \ {0}
    BY HistoryHoldsTwo
  <2>2. e \in Newest(h, MaxHistory) /\ e \in Newest(h, MaxHistory - 1)
    BY <1>1, <2>1, NewestHoldsLast
  <2> QED BY <2>2 DEF Kept
<1>3. e \in TrimEventHistory(h)
  BY <1>1, <1>2 DEF TrimEventHistory
<1>4. TrimEventHistory(h) \subseteq h
  BY DEF TrimEventHistory
<1> QED BY <1>1, <1>3, <1>4 DEF IsLast, Seqs

\* What a trim keeps refers only to what it keeps.
LEMMA TrimIsClosed ==
    ASSUME NEW h, Closed(h)
    PROVE  Closed(TrimEventHistory(h))
<1> DEFINE trimmed == TrimEventHistory(h)
<1>1. trimmed \subseteq h
  BY DEF TrimEventHistory
<1>2. ASSUME NEW e \in trimmed, NEW k \in e.refs
      PROVE  k < e.seq /\ k \in Seqs(trimmed)
  <2>1. k < e.seq /\ k \in Seqs(h)
    BY <1>1, <1>2 DEF Closed, Restorable
  <2>2. PICK f \in h : f.seq = k
    BY <2>1 DEF Seqs
  <2>3. f \in trimmed
    <3>1. CASE Cardinality(h) <= MaxHistory
      BY <3>1 DEF TrimEventHistory
    <3>2. CASE ~(Cardinality(h) <= MaxHistory)
      <4>1. ASSUME NEW s \in SUBSET h, Kept(h) \subseteq s, ClosedIn(s, h) PROVE f \in s
        <5>1. e \in s
          BY <1>2, <3>2, <4>1 DEF TrimEventHistory
        <5> QED BY <1>2, <2>2, <4>1, <5>1 DEF ClosedIn
      <4> QED BY <3>2, <4>1 DEF TrimEventHistory
    <3> QED BY <3>1, <3>2
  <2> QED BY <2>1, <2>2, <2>3 DEF Seqs
<1>3. \E n \in Seqs(trimmed) : IsLast(n, trimmed)
  BY TrimKeepsLast DEF Closed, IsLast
<1> QED BY <1>1, <1>2, <1>3 DEF Closed, Restorable

\* A new event is the last, and may refer to any other.
LEMMA AppendedIsClosed ==
    ASSUME NEW h, Closed(h), NEW refs \in SUBSET Seqs(h), NEW started \in BOOLEAN
    PROVE  /\ Closed(Appended(h, refs, started))
           /\ LastSeq(h) + 1 \in Seqs(Appended(h, refs, started))
<1> DEFINE last == LastSeq(h)
           e == [seq |-> last + 1, refs |-> refs, started |-> started]
           grown == h \cup {e}
<1>1. last \in Nat /\ IsLast(last, h)
  BY LastSeqIsLast DEF Closed
<1>2. Seqs(h) \subseteq Nat
  BY DEF Closed, Seqs, Entry
<1>3. e \in Entry
  BY <1>1, <1>2 DEF Entry
<1> e.seq = last + 1 /\ e.refs = refs
  OBVIOUS
<1> HIDE DEF last, e
<1>4. Seqs(grown) = Seqs(h) \cup {last + 1}
  BY DEF Seqs
<1> HIDE DEF grown
<1>5. IsLast(last + 1, grown)
  BY <1>1, <1>2, <1>4 DEF IsLast
<1>6. Restorable(grown)
  <2> USE DEF grown
  <2> SUFFICES ASSUME NEW d \in grown, NEW k \in d.refs PROVE k < d.seq /\ k \in Seqs(grown)
    BY DEF Restorable
  <2>1. CASE d \in h
    BY <1>4, <2>1 DEF Closed, Restorable
  <2>2. CASE d = e
    <3>1. k \in Seqs(h) /\ d.seq = last + 1
      BY <2>2
    <3>2. k \in Nat /\ k <= last
      BY <1>1, <1>2, <3>1 DEF IsLast
    <3>3. k \in Seqs(grown)
      BY <1>4, <3>1
    <3> QED BY <1>1, <3>1, <3>2, <3>3
  <2> QED BY <2>1, <2>2
<1>7. Closed(grown)
  BY <1>3, <1>5, <1>6 DEF Closed, IsLast, grown
<1>8. Closed(TrimEventHistory(grown))
  BY <1>7, TrimIsClosed
<1>9. last + 1 \in Seqs(TrimEventHistory(grown))
  BY <1>5, <1>7, TrimKeepsLast DEF IsLast, Closed
<1> QED BY <1>8, <1>9 DEF Appended, last, e, grown

-----------------------------------------------------------------------------
(* The session *)

\* A session begins with one event that refers to none.
LEMMA InitIsClosed == Init => HistoryInv
<1> SUFFICES ASSUME Init PROVE HistoryInv
  OBVIOUS
<1>1. PICK started \in BOOLEAN :
          session = [active |-> TRUE, history |-> {[seq |-> 1, refs |-> {}, started |-> started]}]
  BY DEF Init
<1> DEFINE e == [seq |-> 1, refs |-> {}, started |-> started]
<1>2. session.history = {e} /\ saved = {e} /\ sink = {}
  BY <1>1 DEF Init
<1>3. e \in Entry /\ Seqs({e}) = {1}
  BY DEF Entry, Seqs
<1>4. Closed({e})
  BY <1>3 DEF Closed, IsLast, Restorable
<1> QED BY <1>2, <1>4 DEF HistoryInv

\* A commit saves the history that it leaves the session with.
LEMMA CommitIsClosed ==
    ASSUME NEW active, NEW h, Commit(active, h), Closed(h), sink' \subseteq Seqs(h),
           active \/ sink' = {}
    PROVE  HistoryInv'
<1>1. session'.history = h /\ session'.active = active /\ saved' = h
  BY DEF Commit
<1> QED BY <1>1 DEF HistoryInv

\* Every step of the session keeps both histories closed.
LEMMA NextIsClosed ==
    ASSUME HistoryInv, [Next]_vars
    PROVE  HistoryInv'
<1>1. CASE LongRuns
  BY <1>1 DEF HistoryInv
<1>2. CASE ~LongRuns
  <2>1. /\ Closed(session.history) /\ Closed(saved)
        /\ sink \subseteq Seqs(session.history)
        /\ session.active \/ sink = {}
    BY <1>2 DEF HistoryInv
  <2> DEFINE Here == session.history
  <2>2. CASE Emit
    <3>1. PICK refs \in {{}} \cup {{n} : n \in Seqs(Here)} :
              /\ InTime(sink, Appended(Here, refs, FALSE))
              /\ Commit(session.active, Appended(Here, refs, FALSE))
      BY <2>2 DEF Emit
    <3>2. refs \in SUBSET Seqs(Here)
      OBVIOUS
    <3>3. Closed(Appended(Here, refs, FALSE))
      BY <2>1, <3>2, AppendedIsClosed
    <3>4. sink' = sink
      BY <2>2 DEF Emit
    <3>5. sink' \subseteq Seqs(Appended(Here, refs, FALSE))
      BY <1>2, <3>1, <3>4 DEF InTime
    <3>6. session.active \/ sink' = {}
      BY <2>1, <3>4
    <3> QED BY <3>1, <3>3, <3>5, <3>6, CommitIsClosed
  <2>3. CASE EmitTerminalPrecursor
    <3> DEFINE h == Appended(Here, {}, FALSE)
    <3>1. InTime(sink, h) /\ Commit(TRUE, h) /\ sink' = sink \cup {LastSeq(Here) + 1}
      BY <2>3 DEF EmitTerminalPrecursor
    <3>2. Closed(h) /\ LastSeq(Here) + 1 \in Seqs(h)
      BY <2>1, AppendedIsClosed
    <3>3. sink' \subseteq Seqs(h)
      BY <1>2, <3>1, <3>2 DEF InTime
    <3> QED BY <3>1, <3>2, <3>3, CommitIsClosed
  <2>4. CASE WorkflowStops
    <3>1. Commit(TRUE, Appended(Here, sink, FALSE)) /\ sink' = {}
      BY <2>4 DEF WorkflowStops
    <3>2. Closed(Appended(Here, sink, FALSE))
      BY <2>1, AppendedIsClosed
    <3> QED BY <3>1, <3>2, CommitIsClosed
  <2>5. CASE PrecursorsAreDropped
    BY <2>1, <2>5 DEF PrecursorsAreDropped, HistoryInv
  <2>6. CASE TurnEnds
    <3>1. Commit(FALSE, Appended(Here, {}, FALSE)) /\ sink' = {}
      BY <2>6 DEF TurnEnds
    <3>2. Closed(Appended(Here, {}, FALSE))
      BY <2>1, AppendedIsClosed
    <3> QED BY <3>1, <3>2, CommitIsClosed
  <2>7. CASE TurnBegins
    <3> DEFINE h == Appended(Appended(Here, {}, FALSE), {}, FALSE)
    <3>1. Commit(TRUE, h) /\ sink' = {}
      BY <2>1, <2>7 DEF TurnBegins
    <3>2. Closed(h)
      BY <2>1, AppendedIsClosed
    <3> QED BY <3>1, <3>2, CommitIsClosed
  <2>8. CASE Touch
    <3>1. Commit(session.active, Here) /\ sink' = sink
      BY <2>8 DEF Touch
    <3> QED BY <2>1, <3>1, CommitIsClosed
  <2>9. CASE DaemonRestart
    <3>1. session'.history = TrimEventHistory(saved) /\ saved' = saved /\ sink' = {}
      BY <2>1, <2>9 DEF DaemonRestart, Closed
    <3>2. Closed(session'.history) /\ Closed(saved')
      BY <2>1, <3>1, TrimIsClosed
    <3> QED BY <3>1, <3>2 DEF HistoryInv
  <2>10. CASE UNCHANGED <<session, saved, sink>>
    BY <2>1, <2>10 DEF HistoryInv
  <2>11. (PublishFinished \/ (\E t \in Watches : Attach(t) \/ Streams(t)) \/ UNCHANGED vars)
            => UNCHANGED <<session, saved, sink>>
    BY DEF PublishFinished, Attach, Streams, vars
  <2> QED BY <2>2, <2>3, <2>4, <2>5, <2>6, <2>7, <2>8, <2>9, <2>10, <2>11 DEF Next
<1> QED BY <1>1, <1>2

-----------------------------------------------------------------------------
(* What a terminal is shown.  The last event that is saved bounds all of it:    *)
(* the publications that are still queued, and what the terminal has read.     *)

Watch ==
    [phase : {"off", "open", "refused", "finished"}, last : Nat, seen : SUBSET Nat,
     queue : Seq(Publication), lagged : BOOLEAN]

Within(p, n) == p.kind = "Event" => p.seq <= n

\* A stream of the history h, whose last event is n
Shows(w, h, n) ==
    /\ w \in Watch
    /\ \A k \in DOMAIN w.queue : Within(w.queue[k], n)
    /\ w.phase # "refused"
    /\ w.last <= n
    /\ \A m \in Seqs(h) : m <= w.last => m \in w.seen

HasLast(h, n) == h \subseteq Entry /\ IsLast(n, h)

\* The daemon's history ends where the saved one does, unless a restore refused it.
WatchInv ==
    /\ TypeOK
    /\ HasLast(saved, LastSeq(saved))
    /\ Alive => HasLast(session.history, LastSeq(saved))
    /\ \A t \in Watches : Shows(watches[t], session.history, LastSeq(saved))

\* A publication that is queued, or dropped for the oldest, shows nothing yet.
LEMMA HeardShows ==
    ASSUME NEW w, NEW h, NEW n \in Nat, Shows(w, h, n), NEW p \in Publication, Within(p, n)
    PROVE  Shows(Heard(w, p), h, n)
<1> DEFINE queue == Append(w.queue, p)
<1>1. /\ w \in Watch /\ w.phase # "refused" /\ w.last <= n
      /\ \A m \in Seqs(h) : m <= w.last => m \in w.seen
      /\ \A k \in DOMAIN w.queue : Within(w.queue[k], n)
  BY DEF Shows
<1>2. w.queue \in Seq(Publication) /\ Len(w.queue) \in Nat
  BY <1>1 DEF Watch
<1>3. /\ queue \in Seq(Publication) /\ Len(queue) = Len(w.queue) + 1
      /\ \A k \in 1 .. Len(w.queue) : queue[k] = w.queue[k]
      /\ queue[Len(w.queue) + 1] = p
  BY <1>2
<1>4. \A k \in DOMAIN queue : Within(queue[k], n)
  <2> SUFFICES ASSUME NEW k \in 1 .. Len(w.queue) + 1 PROVE Within(queue[k], n)
    BY <1>3
  <2>1. k \in 1 .. Len(w.queue) \/ k = Len(w.queue) + 1
    BY <1>2
  <2> QED
    BY <1>1, <1>2, <1>3, <2>1
<1> HIDE DEF queue
<1>5. /\ Tail(queue) \in Seq(Publication)
      /\ \A k \in DOMAIN Tail(queue) : k + 1 \in DOMAIN queue /\ Tail(queue)[k] = queue[k + 1]
  BY <1>2, <1>3
<1>6. \/ Heard(w, p) = w
      \/ Heard(w, p) = [w EXCEPT !.queue = queue]
      \/ Heard(w, p) = [w EXCEPT !.queue = Tail(queue), !.lagged = TRUE]
  BY DEF Heard, queue
<1>7. CASE Heard(w, p) = w
  BY <1>7
<1>8. CASE Heard(w, p) = [w EXCEPT !.queue = queue]
  BY <1>1, <1>3, <1>4, <1>8 DEF Shows, Watch
<1>9. CASE Heard(w, p) = [w EXCEPT !.queue = Tail(queue), !.lagged = TRUE]
  BY <1>1, <1>4, <1>5, <1>9 DEF Shows, Watch
<1> QED
  BY <1>6, <1>7, <1>8, <1>9

\* A history that grows at its end, and may lose any of its events.
LEMMA LaterHistoryIsShown ==
    ASSUME NEW w, NEW h, NEW n \in Nat, Shows(w, h, n), NEW g, NEW m \in Nat, n <= m,
           \A k \in Seqs(g) : k \in Nat /\ (k \in Seqs(h) \/ k > n)
    PROVE  Shows(w, g, m)
<1>1. /\ w \in Watch /\ w.phase # "refused" /\ w.last <= n /\ w.last \in Nat
      /\ \A k \in Seqs(h) : k <= w.last => k \in w.seen
  BY DEF Shows, Watch
<1>2. \A k \in Seqs(g) : k <= w.last => k \in w.seen
  BY <1>1
<1>3. ASSUME NEW k \in DOMAIN w.queue PROVE Within(w.queue[k], m)
  <2>1. w.queue[k] \in Publication /\ Within(w.queue[k], n)
    BY <1>1, <1>3 DEF Shows, Watch
  <2> QED
    BY <2>1 DEF Within, Publication
<1> QED
  BY <1>1, <1>2, <1>3 DEF Shows

\* A replay shows all the history retains, and the reader accepts it.
LEMMA ReplayShows ==
    ASSUME NEW w, NEW h, NEW n \in Nat, Shows(w, h, n), h = {} \/ HasLast(h, n)
    PROVE  Shows(Replayed(w, h), h, n)
<1> DEFINE seqs == Missing(h, w.last)
<1>1. /\ w \in Watch /\ w.phase # "refused" /\ w.last <= n /\ w.last \in Nat
      /\ \A m \in Seqs(h) : m <= w.last => m \in w.seen
  BY DEF Shows, Watch
<1>2. Replayed(w, h) = [w EXCEPT !.last = IF seqs = {} THEN w.last ELSE LastSeq(h),
                                 !.seen = w.seen \cup seqs]
  BY DEF Replayed, NeedsReset
<1>3. Seqs(h) \subseteq Nat
  BY DEF Seqs, HasLast, Entry
<1>4. seqs \subseteq Nat /\ (\A m \in Seqs(h) : m > w.last => m \in seqs)
  BY <1>3 DEF Missing
<1>5. seqs # {} => LastSeq(h) = n
  <2> SUFFICES ASSUME seqs # {} PROVE LastSeq(h) = n
    OBVIOUS
  <2>1. h # {}
    BY DEF Missing, Seqs
  <2> QED
    BY <2>1, LastSeqIsLast DEF HasLast
<1> DEFINE last == IF seqs = {} THEN w.last ELSE LastSeq(h)
           seen == w.seen \cup seqs
<1>6. last \in Nat /\ last <= n
  BY <1>1, <1>5
<1>7. seen \in SUBSET Nat /\ \A m \in Seqs(h) : m \in seen
  BY <1>1, <1>3, <1>4 DEF Watch
<1>8. Replayed(w, h) = [w EXCEPT !.last = last, !.seen = seen]
  BY <1>2
<1> HIDE DEF seqs, last, seen
<1> QED
  BY <1>1, <1>6, <1>7, <1>8 DEF Shows, Watch

\* Whoever has ended was shown what it was shown.
LEMMA EndedShows ==
    ASSUME NEW w, NEW h, NEW n \in Nat, Shows(w, h, n)
    PROVE  Shows(Ended(w), h, n)
<1>1. w \in Watch /\ w.phase # "refused" /\ w.last <= n
  BY DEF Shows
<1> DEFINE phase == IF w.phase = "open" THEN "finished" ELSE w.phase
<1>2. phase \in {"off", "open", "finished"}
  BY <1>1 DEF Watch
<1>3. Ended(w) = [w EXCEPT !.phase = phase, !.queue = <<>>, !.lagged = FALSE]
  BY DEF Ended
<1> HIDE DEF phase
<1>4. <<>> \in Seq(Publication) /\ \A k \in DOMAIN <<>> : FALSE
  OBVIOUS
<1>5. /\ Ended(w) \in Watch /\ Ended(w).phase # "refused" /\ Ended(w).queue = <<>>
      /\ Ended(w).last = w.last /\ Ended(w).seen = w.seen
  BY <1>1, <1>2, <1>3, <1>4 DEF Watch
<1> QED
  BY <1>4, <1>5 DEF Shows

\* A terminal that begins, and one that no daemon serves any more, is shown nothing.
LEMMA NothingIsShown ==
    ASSUME NEW h, NEW n \in Nat, Seqs(h) \subseteq Nat \ {0}
    PROVE  Shows(NoWatch, h, n) /\ Shows([NoWatch EXCEPT !.phase = "open"], h, n)
<1>1. /\ <<>> \in Seq(Publication) /\ \A k \in DOMAIN <<>> : FALSE
      /\ \A m \in Seqs(h) : ~(m <= 0)
  OBVIOUS
<1>2. ASSUME NEW phase \in {"off", "open"}, NEW w,
             w = [phase |-> phase, last |-> 0, seen |-> {}, queue |-> <<>>, lagged |-> FALSE]
      PROVE  Shows(w, h, n)
  <2>1. w \in Watch /\ w.phase # "refused" /\ w.queue = <<>> /\ w.last = 0
    BY <1>1, <1>2 DEF Watch
  <2> QED
    BY <1>1, <2>1 DEF Shows
<1>3. Shows(NoWatch, h, n)
  BY <1>2 DEF NoWatch
<1> DEFINE w == [NoWatch EXCEPT !.phase = "open"]
<1>4. NoWatch \in Watch /\ NoWatch.queue = <<>> /\ NoWatch.last = 0
  BY <1>1 DEF NoWatch, Watch
<1>5. w \in Watch /\ w.phase # "refused" /\ w.queue = <<>> /\ w.last = 0
  BY <1>4 DEF Watch
<1> HIDE DEF w
<1>6. Shows(w, h, n)
  BY <1>1, <1>5 DEF Shows
<1> QED
  BY <1>3, <1>6 DEF w

\* What a commit publishes lies within what it has saved.
LEMMA BroadcastShows ==
    ASSUME NEW h, NEW first \in Nat, NEW last \in Nat,
           \A t \in Watches : Shows(watches[t], h, last)
    PROVE  \A t \in Watches : Shows(Broadcast(first, last)[t], h, last)
<1> SUFFICES ASSUME NEW t \in Watches PROVE Shows(Broadcast(first, last)[t], h, last)
  OBVIOUS
<1> DEFINE one == IF first <= last THEN Heard(watches[t], Event(first)) ELSE watches[t]
           two == IF first < last THEN Heard(one, Event(last)) ELSE one
<1>1. /\ Event(first) \in Publication /\ Event(last) \in Publication /\ Snapshot \in Publication
      /\ first <= last => Within(Event(first), last)
      /\ Within(Event(last), last) /\ Within(Snapshot, last)
  BY DEF Event, Snapshot, Publication, Within
<1>2. Shows(one, h, last)
  BY <1>1, HeardShows
<1> HIDE DEF one
<1>3. Shows(two, h, last)
  BY <1>1, <1>2, HeardShows
<1> HIDE DEF two
<1>4. Shows(Heard(two, Snapshot), h, last)
  BY <1>1, <1>3, HeardShows
<1> QED
  BY <1>4 DEF Broadcast, one, two

\* A commit of a history that has grown at its end leaves every terminal right.
LEMMA CommitShows ==
    ASSUME WatchInv, Alive, NEW active \in BOOLEAN, NEW h, NEW n \in Nat, HasLast(h, n),
           LastSeq(saved) <= n, \A k \in Seqs(h) : k \in Seqs(session.history) \/ k > LastSeq(saved),
           Commit(active, h)
    PROVE  /\ HasLast(saved', LastSeq(saved')) /\ HasLast(session'.history, LastSeq(saved'))
           /\ \A t \in Watches : Shows(watches'[t], session'.history, LastSeq(saved'))
           /\ session' \in [active : BOOLEAN, history : SUBSET Entry] /\ saved' \in SUBSET Entry
           /\ watches' \in [Watches -> Watch]
<1>1. /\ session' = [active |-> active, history |-> h] /\ saved' = h
      /\ watches' = Broadcast(LastSeq(session.history) + 1, LastSeq(h))
  BY DEF Commit
<1>2. LastSeq(h) = n /\ LastSeq(session.history) \in Nat /\ LastSeq(saved) \in Nat
  BY LastSeqIsLast DEF WatchInv, HasLast
<1>3. Seqs(h) \subseteq Nat
  BY DEF HasLast, Seqs, Entry
<1>4. \A t \in Watches : Shows(watches[t], h, n)
  BY <1>2, <1>3, LaterHistoryIsShown DEF WatchInv
<1>5. \A t \in Watches : Shows(watches'[t], h, n)
  <2> DEFINE first == LastSeq(session.history) + 1
  <2>1. first \in Nat /\ watches' = Broadcast(first, n)
    BY <1>1, <1>2
  <2> HIDE DEF first
  <2>2. \A t \in Watches : Shows(Broadcast(first, n)[t], h, n)
    BY <1>4, <2>1, BroadcastShows
  <2> QED
    BY <2>1, <2>2
<1>6. watches' \in [Watches -> Watch]
  BY <1>1, <1>5 DEF Broadcast, Shows
<1> QED
  BY <1>1, <1>2, <1>5, <1>6 DEF HasLast

\* A new event is the last, and a trim brings nothing back.
LEMMA AppendedGrows ==
    ASSUME NEW h, NEW n \in Nat, HasLast(h, n), NEW refs \in SUBSET Nat, NEW started \in BOOLEAN
    PROVE  /\ HasLast(Appended(h, refs, started), n + 1)
           /\ \A k \in Seqs(Appended(h, refs, started)) : k \in Seqs(h) \/ k > n
<1> DEFINE e == [seq |-> n + 1, refs |-> refs, started |-> started]
           grown == h \cup {e}
<1>1. LastSeq(h) = n
  BY LastSeqIsLast DEF HasLast
<1>2. e \in Entry /\ e.seq = n + 1
  BY DEF Entry
<1> HIDE DEF e
<1>3. Seqs(grown) = Seqs(h) \cup {n + 1}
  BY <1>2 DEF Seqs
<1>4. Seqs(h) \subseteq Nat /\ grown \in SUBSET Entry
  BY <1>2 DEF HasLast, Seqs, Entry
<1> HIDE DEF grown
<1>5. IsLast(n + 1, grown)
  BY <1>3, <1>4 DEF HasLast, IsLast
<1>6. Appended(h, refs, started) = TrimEventHistory(grown)
  BY <1>1 DEF Appended, grown, e
<1>7. IsLast(n + 1, TrimEventHistory(grown))
  BY <1>4, <1>5, TrimKeepsLast
<1>8. TrimEventHistory(grown) \subseteq grown
  BY DEF TrimEventHistory
<1>9. Seqs(TrimEventHistory(grown)) \subseteq Seqs(grown)
  BY <1>8 DEF Seqs
<1> QED
  BY <1>3, <1>4, <1>6, <1>7, <1>8, <1>9 DEF HasLast

\* What a terminal receives is the next event, an old one, a snapshot, a gap or the end.
LEMMA ReceiptShows ==
    ASSUME NEW w, NEW n \in Nat, Shows(w, session.history, n), w.queue # <<>>,
           session.history = {} \/ HasLast(session.history, n)
    PROVE  Shows(Receives(w), session.history, n)
<1> DEFINE h == session.history
           p == Head(w.queue)
           rest == [w EXCEPT !.queue = Tail(w.queue)]
<1>1. /\ w \in Watch /\ w.phase # "refused" /\ w.last <= n /\ w.last \in Nat
      /\ \A m \in Seqs(h) : m <= w.last => m \in w.seen
      /\ \A k \in DOMAIN w.queue : Within(w.queue[k], n)
  BY DEF Shows, Watch
<1>2. w.queue \in Seq(Publication) /\ w.queue # <<>>
  BY <1>1 DEF Watch
<1>3. /\ p \in Publication /\ p = w.queue[1] /\ 1 \in DOMAIN w.queue
      /\ Tail(w.queue) \in Seq(Publication)
      /\ \A k \in DOMAIN Tail(w.queue) :
             k + 1 \in DOMAIN w.queue /\ Tail(w.queue)[k] = w.queue[k + 1]
  BY <1>2
<1>4. Shows(rest, h, n) /\ rest.last = w.last /\ rest.seen = w.seen /\ rest \in Watch
  BY <1>1, <1>3 DEF Shows, Watch
<1>5. Within(p, n)
  BY <1>1, <1>3
<1>6. /\ p.kind = "Snapshot" => Receives(w) = rest
      /\ p.kind = "Finished" => Receives(w) = Ended(Replayed(rest, h))
      /\ p.kind = "Event" =>
             Receives(w) = IF p.seq <= w.last THEN rest
                           ELSE IF p.seq = w.last + 1
                           THEN [rest EXCEPT !.last = p.seq, !.seen = rest.seen \cup {p.seq}]
                           ELSE Resyncs(rest)
  <2> p.seq \in Nat /\ w.last \in Nat /\ rest = [w EXCEPT !.queue = Tail(@)]
    BY <1>1, <1>3 DEF Publication
  <2> HIDE DEF p, rest
  <2>1. Receives(w) =
          CASE p.kind = "Snapshot" -> rest
            [] p.kind = "Event" /\ p.seq <= w.last -> rest
            [] p.kind = "Event" /\ p.seq = w.last + 1 ->
                   [rest EXCEPT !.last = p.seq, !.seen = rest.seen \cup {p.seq}]
            [] p.kind = "Event" /\ p.seq > w.last + 1 -> Resyncs(rest)
            [] p.kind = "Finished" -> Ended(Replayed(rest, h))
    BY DEF Receives, p, rest
  <2> QED
    BY <2>1
<1> HIDE DEF p, rest, h
<1>7. Shows(Replayed(rest, h), h, n)
  BY <1>4, ReplayShows DEF h
<1>8. Shows(Ended(Replayed(rest, h)), h, n)
  BY <1>7, EndedShows
<1>9. Shows(Resyncs(rest), h, n)
  BY <1>7, <1>8 DEF Resyncs, h
<1>10. CASE p.kind = "Snapshot"
  BY <1>4, <1>6, <1>10 DEF h
<1>11. CASE p.kind = "Finished"
  BY <1>6, <1>8, <1>11 DEF h
<1>12. CASE p.kind = "Event"
  <2>1. p.seq \in Nat /\ p.seq <= n
    BY <1>3, <1>5, <1>12 DEF Publication, Within
  <2>2. CASE p.seq <= w.last
    BY <1>4, <1>6, <1>12, <2>2 DEF h
  <2>3. CASE p.seq = w.last + 1
    <3>1. ~(p.seq <= w.last)
      BY <1>1, <2>1, <2>3
    <3> DEFINE seen == rest.seen \cup {p.seq}
    <3>2. Receives(w) = [rest EXCEPT !.last = p.seq, !.seen = seen]
      BY <1>6, <1>12, <2>3, <3>1
    <3>3. /\ \A m \in Seqs(h) : m <= p.seq => m \in seen
          /\ seen \in SUBSET Nat
      <4>1. Seqs(h) \subseteq Nat
        BY DEF HasLast, Seqs, Entry, h
      <4>2. \A m \in Seqs(h) : m <= p.seq => m <= w.last \/ m = p.seq
        BY <1>1, <2>1, <2>3, <4>1
      <4> QED
        BY <1>1, <1>4, <2>1, <4>2 DEF Watch
    <3> HIDE DEF seen
    <3> QED
      BY <1>4, <2>1, <3>2, <3>3 DEF Shows, Watch, h
  <2>4. CASE p.seq > w.last + 1
    <3>1. ~(p.seq <= w.last) /\ p.seq # w.last + 1
      BY <1>1, <2>1, <2>4
    <3> QED
      BY <1>6, <1>9, <1>12, <2>4, <3>1 DEF h
  <2> QED
    BY <1>1, <2>1, <2>2, <2>3, <2>4
<1> QED
  BY <1>3, <1>10, <1>11, <1>12 DEF Publication

\* The types after a step that leaves each terminal shown a history.
LEMMA TypeIsKept ==
    ASSUME TypeOK, session' \in [active : BOOLEAN, history : SUBSET Entry], saved' \in SUBSET Entry,
           sink' \in SUBSET Nat, due' \in Nat, env' \in [touches : Nat, stops : Nat],
           watches' \in [Watches -> Watch]
    PROVE  TypeOK'
  BY DEF TypeOK, Watch

\* A session begins with one event, and nobody watches it.
LEMMA InitShows == Init => WatchInv
<1> SUFFICES ASSUME Init PROVE WatchInv
  OBVIOUS
<1>1. PICK started \in BOOLEAN :
          session = [active |-> TRUE, history |-> {[seq |-> 1, refs |-> {}, started |-> started]}]
  BY DEF Init
<1> DEFINE e == [seq |-> 1, refs |-> {}, started |-> started]
<1>2. session.history = {e} /\ saved = {e} /\ session = [active |-> TRUE, history |-> {e}]
  BY <1>1 DEF Init
<1>3. e \in Entry /\ Seqs({e}) = {1}
  BY DEF Entry, Seqs
<1> HIDE DEF e
<1>4. HasLast({e}, 1)
  BY <1>3 DEF HasLast, IsLast
<1>5. LastSeq({e}) = 1
  BY <1>4, LastSeqIsLast DEF HasLast
<1>6. \A t \in Watches : Shows(watches[t], {e}, 1)
  <2>1. Seqs({e}) \subseteq Nat \ {0} /\ 1 \in Nat
    BY <1>3
  <2>2. Shows(NoWatch, {e}, 1)
    BY <2>1, NothingIsShown
  <2> QED
    BY <2>2 DEF Init
<1>7. TypeOK
  BY <1>2, <1>3, <1>6 DEF Init, TypeOK, Shows, Watch
<1> QED
  BY <1>2, <1>4, <1>5, <1>6, <1>7 DEF WatchInv

\* The commits with an event.
LEMMA EventsAreShown ==
    ASSUME WatchInv, Emit \/ EmitTerminalPrecursor \/ WorkflowStops \/ TurnEnds \/ TurnBegins
    PROVE  WatchInv'
<1> DEFINE Here == session.history
           n == LastSeq(saved)
<1>1. /\ Alive /\ TypeOK /\ sink \in SUBSET Nat /\ session.active \in BOOLEAN
  BY DEF WatchInv, TypeOK, Emit, EmitTerminalPrecursor, WorkflowStops, TurnEnds, TurnBegins
<1>2. /\ n \in Nat /\ HasLast(Here, n) /\ LastSeq(Here) = n
  BY <1>1, LastSeqIsLast DEF WatchInv, HasLast
<1>3. Seqs(Here) \subseteq Nat
  BY <1>2 DEF HasLast, Seqs, Entry
<1> HIDE DEF Here, n
<1>4. ASSUME NEW refs \in SUBSET Nat, NEW active \in BOOLEAN,
             Commit(active, Appended(Here, refs, FALSE)),
             sink' \in SUBSET Nat, due' \in Nat, env' = env
      PROVE  WatchInv'
  <2> DEFINE h == Appended(Here, refs, FALSE)
  <2>1. HasLast(h, n + 1) /\ (\A k \in Seqs(h) : k \in Seqs(Here) \/ k > n)
    <3>1. FALSE \in BOOLEAN /\ n \in Nat /\ HasLast(Here, n) /\ refs \in SUBSET Nat
      BY <1>2, <1>4
    <3> QED
      BY <3>1, AppendedGrows
  <2> HIDE DEF h
  <2>2. Commit(active, h)
    BY <1>4 DEF h
  <2>3. /\ HasLast(saved', LastSeq(saved')) /\ HasLast(session'.history, LastSeq(saved'))
        /\ \A t \in Watches : Shows(watches'[t], session'.history, LastSeq(saved'))
        /\ session' \in [active : BOOLEAN, history : SUBSET Entry] /\ saved' \in SUBSET Entry
        /\ watches' \in [Watches -> Watch]
    <3>1. n + 1 \in Nat /\ n <= n + 1 /\ active \in BOOLEAN
      BY <1>2, <1>4
    <3> QED
      BY <1>1, <2>1, <2>2, <3>1, CommitShows DEF n, Here
  <2>4. env' \in [touches : Nat, stops : Nat] /\ sink' \in SUBSET Nat /\ due' \in Nat
    BY <1>1, <1>4 DEF TypeOK
  <2>5. TypeOK'
    BY <1>1, <2>3, <2>4, TypeIsKept
  <2> QED
    BY <2>3, <2>5 DEF WatchInv
<1>5. CASE Emit
  <2>1. PICK refs \in {{}} \cup {{k} : k \in Seqs(Here)} :
            Commit(session.active, Appended(Here, refs, FALSE))
    BY <1>5 DEF Emit, Here
  <2>2. refs \in SUBSET Nat
    BY <1>3
  <2>3. sink' = sink /\ due' = due /\ env' = env
    BY <1>5 DEF Emit
  <2> QED
    BY <1>1, <1>4, <2>1, <2>2, <2>3 DEF TypeOK
<1>6. CASE EmitTerminalPrecursor
  <2>1. /\ Commit(TRUE, Appended(Here, {}, FALSE)) /\ sink' = sink \cup {n + 1}
        /\ due' = due /\ env' = env
    BY <1>2, <1>6 DEF EmitTerminalPrecursor, Here
  <2>2. sink' \in SUBSET Nat /\ due' \in Nat
    BY <1>1, <1>2, <2>1 DEF TypeOK
  <2> QED
    BY <1>4, <2>1, <2>2
<1>7. CASE WorkflowStops
  <2>1. /\ Commit(TRUE, Appended(Here, sink, FALSE)) /\ sink' = {} /\ due' = due /\ env' = env
    BY <1>7 DEF WorkflowStops, Here
  <2>2. due' \in Nat
    BY <1>1, <2>1 DEF TypeOK
  <2> QED
    BY <1>1, <1>4, <2>1, <2>2
<1>8. CASE TurnEnds
  <2>1. /\ Commit(FALSE, Appended(Here, {}, FALSE)) /\ sink' = {} /\ due' = due + 1 /\ env' = env
    BY <1>8 DEF TurnEnds, Here
  <2>2. due' \in Nat
    BY <1>1, <2>1 DEF TypeOK
  <2> QED
    BY <1>4, <2>1, <2>2
<1>9. CASE TurnBegins
  <2> DEFINE g == Appended(Here, {}, FALSE)
             h == Appended(g, {}, FALSE)
  <2>1. Commit(TRUE, h) /\ sink' = sink /\ due' = due /\ env' = env
    BY <1>9 DEF TurnBegins, Here
  <2>2. HasLast(g, n + 1) /\ (\A k \in Seqs(g) : k \in Seqs(Here) \/ k > n)
    BY <1>2, AppendedGrows
  <2>3. n + 1 \in Nat
    BY <1>2
  <2> HIDE DEF g
  <2>4. HasLast(h, n + 1 + 1) /\ (\A k \in Seqs(h) : k \in Seqs(g) \/ k > n + 1)
    BY <2>2, <2>3, AppendedGrows
  <2> HIDE DEF h
  <2>5. /\ \A k \in Seqs(h) : k \in Seqs(Here) \/ k > n
        /\ n + 1 + 1 \in Nat /\ n <= n + 1 + 1
    <3>1. Seqs(h) \subseteq Nat
      BY <2>4 DEF HasLast, Seqs, Entry
    <3> QED
      BY <1>2, <2>2, <2>4, <3>1
  <2>6. /\ HasLast(saved', LastSeq(saved')) /\ HasLast(session'.history, LastSeq(saved'))
        /\ \A t \in Watches : Shows(watches'[t], session'.history, LastSeq(saved'))
        /\ session' \in [active : BOOLEAN, history : SUBSET Entry] /\ saved' \in SUBSET Entry
        /\ watches' \in [Watches -> Watch]
    BY <1>1, <2>1, <2>4, <2>5, CommitShows DEF n, Here
  <2> QED
    BY <1>1, <2>1, <2>6, TypeIsKept DEF WatchInv, TypeOK
<1> QED
  BY <1>5, <1>6, <1>7, <1>8, <1>9

\* A commit without an event, and a sink that is emptied.
LEMMA TouchShows ==
    ASSUME WatchInv, Touch \/ PrecursorsAreDropped
    PROVE  WatchInv'
<1> DEFINE n == LastSeq(saved)
<1>1. TypeOK /\ Alive
  BY DEF WatchInv, Touch, PrecursorsAreDropped
<1>2. n \in Nat /\ HasLast(session.history, n)
  BY <1>1, LastSeqIsLast DEF WatchInv, HasLast
<1>3. CASE Touch
  <2>1. /\ Commit(session.active, session.history)
        /\ env' = [env EXCEPT !.touches = @ + 1] /\ sink' = sink /\ due' = due
    BY <1>3 DEF Touch
  <2>2. session.active \in BOOLEAN /\ n <= n
    BY <1>1, <1>2 DEF TypeOK
  <2>3. /\ HasLast(saved', LastSeq(saved')) /\ HasLast(session'.history, LastSeq(saved'))
        /\ \A t \in Watches : Shows(watches'[t], session'.history, LastSeq(saved'))
        /\ session' \in [active : BOOLEAN, history : SUBSET Entry] /\ saved' \in SUBSET Entry
        /\ watches' \in [Watches -> Watch]
    BY <1>1, <1>2, <2>1, <2>2, CommitShows
  <2>4. env' \in [touches : Nat, stops : Nat] /\ sink' \in SUBSET Nat /\ due' \in Nat
    BY <1>1, <2>1 DEF TypeOK
  <2>5. TypeOK'
    BY <1>1, <2>3, <2>4, TypeIsKept
  <2> QED
    BY <2>3, <2>5 DEF WatchInv
<1>4. CASE PrecursorsAreDropped
  <2>1. sink' = {} /\ UNCHANGED <<session, saved, due, watches, env>>
    BY <1>4 DEF PrecursorsAreDropped
  <2>2. TypeOK'
    BY <1>1, <2>1 DEF TypeOK
  <2> QED
    BY <2>1, <2>2 DEF WatchInv, Alive
<1> QED
  BY <1>3, <1>4

\* A commit's Finished, and a terminal's own step: the session is as it was.
LEMMA StreamsShow ==
    ASSUME WatchInv, PublishFinished \/ \E t \in Watches : Attach(t) \/ Streams(t)
    PROVE  WatchInv'
<1> DEFINE h == session.history
           n == LastSeq(saved)
<1>1. /\ TypeOK /\ n \in Nat /\ (h = {} \/ HasLast(h, n))
      /\ \A t \in Watches : Shows(watches[t], h, n)
  <2>1. n \in Nat
    BY LastSeqIsLast DEF WatchInv, HasLast
  <2> QED
    BY <2>1 DEF WatchInv, Alive
<1>2. ASSUME UNCHANGED <<session, saved, sink, env>>, due' \in Nat,
             NEW f, watches' = [t \in Watches |-> f[t]], \A t \in Watches : Shows(f[t], h, n)
      PROVE  WatchInv'
  <2>1. watches' \in [Watches -> Watch] /\ \A t \in Watches : Shows(watches'[t], h, n)
    BY <1>2 DEF Shows
  <2>2. TypeOK'
    BY <1>1, <1>2, <2>1 DEF TypeOK, Watch
  <2> QED
    BY <1>2, <2>1, <2>2 DEF WatchInv, Alive
<1> HIDE DEF h, n
<1>3. CASE PublishFinished
  <2> DEFINE f == [t \in Watches |-> Heard(watches[t], Finished)]
  <2>1. due > 0 /\ due' = due - 1 /\ watches' = f /\ UNCHANGED <<session, saved, sink, env>>
    BY <1>3 DEF PublishFinished
  <2>2. due' \in Nat
    BY <1>1, <2>1 DEF TypeOK
  <2>3. Finished \in Publication /\ Within(Finished, n)
    BY DEF Finished, Publication, Within
  <2>4. \A t \in Watches : Shows(f[t], h, n)
    BY <1>1, <2>3, HeardShows
  <2>5. f = [t \in Watches |-> f[t]]
    OBVIOUS
  <2> HIDE DEF f
  <2> QED
    BY <1>2, <2>1, <2>2, <2>4, <2>5
<1>4. ASSUME NEW t \in Watches, NEW w, watches' = [watches EXCEPT ![t] = w], Shows(w, h, n),
             UNCHANGED <<session, saved, sink, due, env>>
      PROVE  WatchInv'
  <2> DEFINE f == [watches EXCEPT ![t] = w]
  <2>1. DOMAIN watches = Watches /\ due' \in Nat
    BY <1>1, <1>4 DEF TypeOK
  <2>2. f = [s \in Watches |-> f[s]] /\ \A s \in Watches : Shows(f[s], h, n)
    BY <1>1, <1>4, <2>1
  <2> HIDE DEF f
  <2> QED
    BY <1>2, <1>4, <2>1, <2>2 DEF f
<1>5. CASE \E t \in Watches : Attach(t)
  <2>1. PICK t \in Watches : Attach(t)
    BY <1>5
  <2> DEFINE w == Replayed([NoWatch EXCEPT !.phase = "open"], h)
  <2>2. watches' = [watches EXCEPT ![t] = IF session.active THEN w ELSE Ended(w)]
    BY <2>1 DEF Attach, h
  <2>3. Seqs(h) \subseteq Nat \ {0}
    BY <1>1 DEF HasLast, Seqs, Entry
  <2>4. Shows(w, h, n)
    BY <1>1, <2>3, NothingIsShown, ReplayShows
  <2> HIDE DEF w
  <2>5. Shows(IF session.active THEN w ELSE Ended(w), h, n)
    BY <1>1, <2>4, EndedShows
  <2> QED
    BY <1>4, <2>1, <2>2, <2>5 DEF Attach
<1>6. CASE \E t \in Watches : Streams(t)
  <2>1. PICK t \in Watches : Streams(t)
    BY <1>6
  <2>2. /\ watches[t] \in Watch /\ Shows(watches[t], h, n)
        /\ UNCHANGED <<session, saved, sink, due, env>>
    BY <1>1, <2>1 DEF Shows, Streams
  <2>3. ASSUME NEW w, Shows(w, h, n) PROVE Shows(Resyncs(w), h, n)
    BY <1>1, <2>3, ReplayShows, EndedShows DEF Resyncs, h
  <2>4. CASE watches[t].lagged
    <3> DEFINE w == [watches[t] EXCEPT !.lagged = FALSE]
    <3>1. watches' = [watches EXCEPT ![t] = Resyncs(w)]
      BY <1>1, <2>1, <2>4 DEF Streams, TypeOK
    <3>2. Shows(w, h, n)
      BY <2>2 DEF Shows, Watch
    <3> HIDE DEF w
    <3> QED
      BY <1>4, <2>2, <2>3, <3>1, <3>2
  <2>5. CASE ~watches[t].lagged
    <3>1. watches[t].queue # <<>> /\ watches' = [watches EXCEPT ![t] = Receives(watches[t])]
      BY <1>1, <2>1, <2>5 DEF Streams, TypeOK
    <3>2. Shows(Receives(watches[t]), h, n)
      BY <1>1, <2>2, <3>1, ReceiptShows DEF h
    <3> QED
      BY <1>4, <2>2, <3>1, <3>2
  <2> QED
    BY <2>4, <2>5
<1> QED
  BY <1>3, <1>5, <1>6

\* After a stop the session is what was saved, and nobody watches it yet.
LEMMA RestartShows ==
    ASSUME WatchInv, DaemonRestart
    PROVE  WatchInv'
<1> DEFINE n == LastSeq(saved)
           g == IF Restorable(saved) THEN TrimEventHistory(saved) ELSE {}
<1>1. /\ session' = [active |-> FALSE, history |-> g] /\ saved' = saved /\ sink' = {} /\ due' = 0
      /\ watches' = [t \in Watches |-> NoWatch] /\ env' = [env EXCEPT !.stops = @ + 1]
  BY DEF DaemonRestart
<1>2. TypeOK /\ n \in Nat /\ HasLast(saved, n)
  BY LastSeqIsLast DEF WatchInv, HasLast
<1>3. HasLast(TrimEventHistory(saved), n)
  <2>1. TrimEventHistory(saved) \subseteq saved /\ saved \in SUBSET Entry
    BY <1>2 DEF TrimEventHistory, HasLast
  <2> QED
    BY <1>2, <2>1, TrimKeepsLast DEF HasLast
<1>4. g \in SUBSET Entry /\ (g # {} => HasLast(g, n))
  BY <1>3 DEF HasLast
<1>5. Seqs(g) \subseteq Nat \ {0}
  BY <1>4 DEF Seqs, Entry
<1> HIDE DEF g
<1>6. Shows(NoWatch, g, n)
  BY <1>2, <1>5, NothingIsShown
<1>7. watches' \in [Watches -> Watch] /\ \A t \in Watches : Shows(watches'[t], g, n)
  BY <1>1, <1>6 DEF Shows
<1>8. TypeOK'
  <2>1. session' \in [active : BOOLEAN, history : SUBSET Entry] /\ saved' \in SUBSET Entry
    BY <1>1, <1>2, <1>4 DEF TypeOK
  <2>2. sink' \in SUBSET Nat /\ due' \in Nat /\ env' \in [touches : Nat, stops : Nat]
    BY <1>1, <1>2 DEF TypeOK
  <2> QED
    BY <1>2, <1>7, <2>1, <2>2, TypeIsKept
<1> QED
  BY <1>1, <1>2, <1>4, <1>7, <1>8 DEF WatchInv, Alive

-----------------------------------------------------------------------------
(* Theorems *)

\* Whatever the daemon commits, trims, loses and publishes, a terminal is shown
\* every event the history retains up to the last it was shown, never one that is
\* not saved, and its stream never breaks the protocol (daemon_client.rs:511).
THEOREM WatchesShowTheHistory == Spec => [](TypeOK /\ WatchShowsTheHistory)
<1>1. WatchInv => TypeOK /\ WatchShowsTheHistory
  BY DEF WatchInv, Shows, WatchShowsTheHistory
<1>2. WatchInv /\ [Next]_vars => WatchInv'
  <2>1. WatchInv /\ UNCHANGED vars => WatchInv'
    BY DEF WatchInv, TypeOK, Alive, vars
  <2> QED
    BY <2>1, EventsAreShown, TouchShows, StreamsShow, RestartShows DEF Next
<1> QED
  BY <1>1, <1>2, InitShows, PTL DEF Spec

\* Whatever is appended and however often it is trimmed, what is saved refers only to
\* what is saved with it, so that a restore accepts it (session_store.rs:513).
THEOREM StoredHistoryClosed == Spec => []StoredHistoryIsClosed
<1>1. HistoryInv => StoredHistoryIsClosed
  BY DEF HistoryInv, StoredHistoryIsClosed, Closed
<1>2. Spec => []HistoryInv
  BY InitIsClosed, NextIsClosed, PTL DEF Spec
<1> QED BY <1>1, <1>2, PTL

=============================================================================
