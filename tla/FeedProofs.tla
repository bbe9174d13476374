----------------------------- MODULE FeedProofs -----------------------------
(***************************************************************************)
(* Theorems about SnapshotFeed, for every number of revisions and every    *)
(* length of its queues: that a followed stream tells the browser of       *)
(* everything, and that the page implements SnapshotView.                  *)
(***************************************************************************)
EXTENDS SnapshotFeed, SequenceTheorems, TLAPS

-----------------------------------------------------------------------------
(* The inductive invariant, in named parts.                                *)

Snapshots == [epoch : Epochs, rev : 0..MaxRevision]

\* The types, with the register's definitions expanded.
Types ==
  /\ body \in Snapshots \cup {None} /\ watermark \in 0..MaxRevision \cup {-1}
  /\ link \in BOOLEAN /\ drops \in 0..MaxDrops
  /\ events \in Seq(0..MaxRevision) /\ Len(events) <= MaxEvents
  /\ task \in [pc : {"listening", "fetching", "publishing", "sleeping", "recovering",
                     "republishing"}, rev : 0..MaxRevision]
  /\ following \in BOOLEAN
  /\ queue \in Seq(0..MaxRevision) /\ Len(queue) <= Capacity
  /\ lagged \in BOOLEAN
  /\ stream \in [pc : {"closed", "subscribed", "open", "ended"}, last : 0..MaxRevision]
  /\ frames \in Seq(Frames) /\ Len(frames) <= MaxFrames
  /\ client \in [pc : {"fetch", "request", "streaming", "waiting"},
                 last : 0..MaxRevision \cup {-1}, current : 0..MaxRevision \cup {-1},
                 shown : 0..MaxRevision \cup {-1}]

\* The newest revision the API can answer with.
Newest == IF watermark = -1 THEN 0 ELSE watermark

Fetched == task.pc \in {"publishing", "republishing"}

\* Whatever is under way was stored before it was sent.
NothingInvented ==
  /\ body # None => body.rev = watermark
  /\ \A i \in 1..Len(events) : events[i] <= watermark
  /\ task.pc = "fetching" \/ Fetched => task.rev <= watermark
  /\ \A i \in 1..Len(queue) : queue[i] <= watermark
  /\ stream.last <= Newest
  /\ \A i \in 1..Len(frames) : frames[i].rev <= Newest
  /\ client.shown <= Newest

\* The three revisions of the browser are one, and response and browser agree
\* on the phase they are in.
Together ==
  /\ client.last = client.shown /\ client.current = client.shown
  /\ client.pc = "streaming" <=> stream.pc \in {"open", "ended"}
  /\ stream.pc = "subscribed" => client.pc = "request"
  /\ stream.pc \in {"closed", "subscribed"} => frames = <<>>
  /\ Receiving => following

\* Between the browser and the response there is no gap that is not announced.
NoGap ==
  /\ \A i \in 1..Len(frames) :
       /\ frames[i].kind = "resync" => i = Len(frames) /\ stream.pc = "ended"
       /\ frames[i].kind = "player" =>
            IF i = 1 THEN frames[i].rev <= client.current + 1
            ELSE frames[i].rev = frames[i - 1].rev + 1
  /\ stream.pc = "open" =>
       IF frames = <<>> THEN stream.last <= client.current
       ELSE frames[Len(frames)].rev = stream.last

\* The task brings nothing older than what the receiver holds.
TaskAhead == Fetched => \A i \in 1..Len(queue) : queue[i] <= task.rev

\* The newest snapshot, or the knowledge that there may be a newer one, is
\* somewhere between the cache and the open response.
Informed ==
  body # None /\ link /\ stream.pc = "open" /\ ~lagged =>
    \/ events # <<>> /\ events[Len(events)] = watermark
    \/ task.pc \in {"fetching", "recovering", "sleeping"}
    \/ Fetched /\ task.rev = watermark
    \/ queue # <<>> /\ queue[Len(queue)] = watermark
    \/ stream.last >= watermark

Inv == Types /\ NothingInvented /\ Together /\ NoGap /\ TaskAhead /\ Informed

-----------------------------------------------------------------------------
(* Sequences.                                                              *)

\* The last element of a sequence.
Last(s) == s[Len(s)]

\* Dropping the head of a queue moves the others up and keeps the last of them.
LEMMA TailFacts ==
  ASSUME NEW S, NEW s \in Seq(S), s # <<>>
  PROVE  /\ Len(s) \in Nat \ {0} /\ Head(s) = s[1] /\ s[1] \in S
         /\ Tail(s) \in Seq(S) /\ Len(Tail(s)) = Len(s) - 1
         /\ \A i \in 1..Len(Tail(s)) : i + 1 \in 1..Len(s) /\ Tail(s)[i] = s[i + 1]
         /\ Tail(s) = <<>> <=> Len(s) = 1
         /\ Tail(s) # <<>> => Last(Tail(s)) = Last(s)
<1>1. Len(s) \in Nat \ {0} /\ Head(s) = s[1]
  BY EmptySeq
<1>2. /\ Tail(s) \in Seq(S) /\ Len(Tail(s)) = Len(s) - 1
      /\ \A i \in 1..Len(Tail(s)) : Tail(s)[i] = s[i + 1]
  BY HeadTailProperties
<1>3. s[1] \in S
  BY <1>1, ElementOfSeq
<1>4. Tail(s) = <<>> <=> Len(s) = 1
  BY <1>1, <1>2, EmptySeq
<1>5. Tail(s) # <<>> => Last(Tail(s)) = Last(s)
  BY <1>1, <1>2, <1>4 DEF Last
<1> QED  BY <1>1, <1>2, <1>3, <1>4, <1>5

\* Appending keeps what is there.
LEMMA AppendFacts ==
  ASSUME NEW S, NEW s \in Seq(S), NEW x \in S
  PROVE  /\ Append(s, x) \in Seq(S) /\ Append(s, x) # <<>>
         /\ Len(s) \in Nat /\ Len(Append(s, x)) = Len(s) + 1
         /\ \A i \in 1..Len(s) : Append(s, x)[i] = s[i]
         /\ Append(s, x)[Len(s) + 1] = x /\ Last(Append(s, x)) = x
         /\ \A i \in 1..Len(Append(s, x)) : i \in 1..Len(s) \/ i = Len(s) + 1
BY AppendProperties, LenProperties DEF Last

\* A bounded queue whose elements are at most b, after one more is put in.
LEMMA QueueFacts ==
  ASSUME NEW b \in Int, NEW n \in Nat,
         NEW s \in Seq(0..MaxRevision), Len(s) < n,
         \A i \in 1..Len(s) : s[i] \in Int /\ s[i] <= b,
         NEW r \in 0..MaxRevision, r <= b
  PROVE  /\ Append(s, r) \in Seq(0..MaxRevision) /\ Append(s, r) # <<>>
         /\ Len(Append(s, r)) <= n /\ Last(Append(s, r)) = r
         /\ \A i \in 1..Len(Append(s, r)) : Append(s, r)[i] <= b
<1> DEFINE more == Append(s, r)
<1>1. /\ more \in Seq(0..MaxRevision) /\ more # <<>>
      /\ Len(s) \in Nat /\ Len(more) = Len(s) + 1
      /\ \A i \in 1..Len(s) : more[i] = s[i]
      /\ more[Len(s) + 1] = r /\ Last(more) = r
      /\ \A i \in 1..Len(more) : i \in 1..Len(s) \/ i = Len(s) + 1
  BY AppendFacts
<1> HIDE DEF more
<1>2. Len(more) <= n /\ \A i \in 1..Len(more) : more[i] <= b
  BY <1>1
<1> QED  BY <1>1, <1>2 DEF more

\* A prefix has the first elements of its sequence.
LEMMA PrefixFacts ==
  ASSUME NEW S, NEW s \in Seq(S), NEW p \in Prefixes(s)
  PROVE  /\ p \in Seq(S) /\ Len(p) <= Len(s) /\ Len(p) \in Nat /\ Len(s) \in Nat
         /\ \A i \in 1..Len(p) : i \in 1..Len(s) /\ p[i] = s[i]
<1>1. PICK n \in 0..Len(s) : p = SubSeq(s, 1, n)
  BY DEF Prefixes
<1>2. Len(s) \in Nat /\ n \in Int /\ \A i \in 1..n : s[i] \in S
  BY LenProperties, ElementOfSeq
<1>3. /\ SubSeq(s, 1, n) \in Seq(S)
      /\ Len(SubSeq(s, 1, n)) = IF 1 <= n THEN n - 1 + 1 ELSE 0
      /\ \A i \in 1..n - 1 + 1 : SubSeq(s, 1, n)[i] = s[1 + i - 1]
  BY <1>2, SubSeqProperties
<1> QED  BY <1>1, <1>2, <1>3

-----------------------------------------------------------------------------
(* What the types say of the records.                                      *)

\* The constants, and the definitions that the actions use of the register.
LEMMA FeedFacts ==
  /\ MaxRevision \in Nat /\ MaxEvents \in Nat /\ MaxDrops \in Nat
  /\ Capacity \in Nat \ {0} /\ MaxFrames \in Nat \ {0}
  /\ Register!Snapshots = Snapshots /\ None \notin Snapshots
  /\ \A s \in Snapshots : s.rev \in 0..MaxRevision
  /\ Revisions = 0..MaxRevision /\ Never = -1 /\ Known = Revisions \cup {-1}
BY FeedAssumption
DEF Register!Snapshots, Snapshots, Revisions, Never, Register!Never, Known

\* What is under way, by type.
LEMMA TypeFacts ==
  ASSUME Types
  PROVE  /\ watermark \in Int /\ -1 <= watermark /\ Newest \in Int /\ watermark <= Newest
         /\ Newest \in 0..MaxRevision /\ MaxRevision \in Nat
         /\ body # None => body.rev \in 0..MaxRevision
         /\ task.rev \in 0..MaxRevision
         /\ stream.last \in 0..MaxRevision
         /\ client.shown \in Int /\ client.current \in Int /\ client.last \in Int
         /\ Current \in 0..MaxRevision
         /\ \A i \in 1..Len(frames) : frames[i] \in Frames /\ frames[i].rev \in 0..MaxRevision
         /\ \A i \in 1..Len(queue) : queue[i] \in 0..MaxRevision
         /\ \A i \in 1..Len(events) : events[i] \in 0..MaxRevision
<1>1. \A i \in 1..Len(frames) : frames[i] \in Frames
  BY ElementOfSeq DEF Types
<1>2. \A f \in Frames : f.rev \in 0..MaxRevision
  BY DEF Frames, Revisions
<1>3. /\ \A i \in 1..Len(queue) : queue[i] \in 0..MaxRevision
      /\ \A i \in 1..Len(events) : events[i] \in 0..MaxRevision
  BY ElementOfSeq DEF Types
<1>4. /\ task.rev \in 0..MaxRevision /\ stream.last \in 0..MaxRevision
      /\ client.shown \in Int /\ client.current \in Int /\ client.last \in Int
  BY FeedFacts DEF Types
<1>5. /\ watermark \in Int /\ -1 <= watermark /\ Newest \in Int /\ watermark <= Newest
      /\ Newest \in 0..MaxRevision /\ MaxRevision \in Nat
  BY FeedFacts DEF Types, Newest
<1>6. (body # None => body.rev \in 0..MaxRevision) /\ Current \in 0..MaxRevision
  BY FeedFacts DEF Types, Current
<1> QED  BY <1>1, <1>2, <1>3, <1>4, <1>5, <1>6


\* All revisions are integers.
LEMMA IntFacts ==
  ASSUME Types
  PROVE  /\ watermark \in Int /\ Newest \in Int /\ task.rev \in Int /\ stream.last \in Int
         /\ client.shown \in Int /\ client.current \in Int /\ client.last \in Int
         /\ \A i \in 1..Len(frames) : frames[i].rev \in Int
         /\ \A i \in 1..Len(queue) : queue[i] \in Int
         /\ \A i \in 1..Len(events) : events[i] \in Int
<1>1. 0..MaxRevision \subseteq Int
  OBVIOUS
<1> QED  BY <1>1, TypeFacts

-----------------------------------------------------------------------------
(* The cache and the backend's task.                                       *)

\* Store: everything under way is as old as it was, and the event that is sent
\* names the new watermark.
LEMMA StoreInv ==
  ASSUME Inv, Store
  PROVE  Inv'
<1> USE FeedFacts DEF cache, backend, sse
<1>1. PICK s \in Snapshots : s.rev > watermark /\ body' = s /\ watermark' = s.rev
  BY DEF Store, Register!Put
<1>2. watermark' \in 0..MaxRevision /\ watermark' \in Int /\ watermark' > watermark 
      /\ Newest' >= Newest /\ Newest' \in Int
  BY <1>1, TypeFacts DEF Inv, Newest
<1>3. /\ events' = IF link THEN Append(events, watermark') ELSE events
      /\ events \in Seq(0..MaxRevision) /\ Len(events) \in Nat /\ Len(events) < MaxEvents
      /\ UNCHANGED <<link, drops, task, following, queue, lagged, stream, frames, client>>
  BY LenProperties DEF Store, Inv, Types
<1>4. \A i \in 1..Len(events) : events[i] \in Int /\ events[i] <= watermark'
  BY <1>2, IntFacts DEF Inv, NothingInvented
<1>5. /\ events' \in Seq(0..MaxRevision) /\ Len(events') <= MaxEvents
      /\ \A i \in 1..Len(events') : events'[i] <= watermark'
      /\ link => events' # <<>> /\ Last(events') = watermark'
  <2>1. CASE link
    <3>1. events' = Append(events, watermark')
      BY <1>3, <2>1
    <3>2. /\ Append(events, watermark') \in Seq(0..MaxRevision)
          /\ Append(events, watermark') # <<>> /\ Len(Append(events, watermark')) <= MaxEvents
          /\ \A i \in 1..Len(Append(events, watermark')) : Append(events, watermark')[i] <= watermark'
      <4>1. /\ watermark' \in Int /\ watermark' \in 0..MaxRevision /\ watermark' <= watermark'
            /\ MaxEvents \in Nat /\ events \in Seq(0..MaxRevision) /\ Len(events) < MaxEvents
            /\ \A i \in 1..Len(events) : events[i] \in Int /\ events[i] <= watermark'
        BY <1>2, <1>3, <1>4
      <4> HIDE FeedFacts
      <4> QED  BY <4>1, QueueFacts
    <3>3. Last(Append(events, watermark')) = watermark'
      BY <1>2, <1>3, AppendFacts
    <3>4. Last(events') = Last(Append(events, watermark'))
      BY <3>1 DEF Last
    <3> QED  BY <3>1, <3>2, <3>3, <3>4
  <2>2. CASE ~link
    BY <1>3, <1>4, <2>2
  <2> QED  BY <2>1, <2>2
<1>6. Types'
  BY <1>1, <1>2, <1>3, <1>5 DEF Inv, Types
<1>7. NothingInvented'
  <2>1. /\ task.rev \in Int /\ stream.last \in Int /\ client.shown \in Int
        /\ \A i \in 1..Len(frames) : frames[i].rev \in Int
        /\ \A i \in 1..Len(queue) : queue[i] \in Int
        /\ watermark \in Int /\ Newest \in Int
    BY IntFacts DEF Inv
  <2>2. /\ Fetched' => Fetched
        /\ UNCHANGED <<task, queue, stream, frames, client>>
    BY <1>3 DEF Fetched
  <2>3. /\ stream.last <= Newest' /\ client.shown <= Newest'
        /\ \A i \in 1..Len(frames) : frames[i].rev <= Newest'
    BY <1>2, <2>1 DEF Inv, NothingInvented
  <2>4. /\ \A i \in 1..Len(queue) : queue[i] <= watermark'
        /\ task.pc = "fetching" \/ Fetched => task.rev <= watermark'
    BY <1>2, <2>1 DEF Inv, NothingInvented
  <2> QED  BY <1>1, <1>5, <2>2, <2>3, <2>4 DEF NothingInvented
<1>8. Together' /\ NoGap' /\ TaskAhead'
  BY <1>3 DEF Inv, Together, NoGap, TaskAhead, Fetched, Receiving
<1>9. Informed'
  BY <1>3, <1>5 DEF Inv, Informed, Last
<1> QED  BY <1>6, <1>7, <1>8, <1>9 DEF Inv

\* Expire
LEMMA ExpireInv ==
  ASSUME Inv, Expire
  PROVE  Inv'
<1>1. /\ body' = None
      /\ UNCHANGED <<watermark, link, events, drops, task, following, queue, lagged, stream,
                     frames, client>>
  BY DEF Expire, Register!Expire, backend, sse
<1>2. Types' /\ NothingInvented' /\ Informed'
  BY <1>1 DEF Inv, Types, NothingInvented, Newest, Fetched, Informed
<1>3. Together' /\ NoGap' /\ TaskAhead'
  BY <1>1 DEF Inv, Together, NoGap, TaskAhead, Fetched, Receiving
<1> QED  BY <1>2, <1>3 DEF Inv

\* The invariant when only the backend's task and its subscription move.
LEMMA TaskInv ==
  ASSUME Inv,
         UNCHANGED <<cache, following, sse, client>>,
         link' \in BOOLEAN, drops' \in 0..MaxDrops,
         events' \in Seq(0..MaxRevision), Len(events') <= MaxEvents,
         task' \in [pc : {"listening", "fetching", "publishing", "sleeping", "recovering",
                          "republishing"}, rev : 0..MaxRevision],
         \A i \in 1..Len(events') : events'[i] <= watermark,
         task'.pc \in {"fetching", "publishing", "republishing"} => task'.rev <= watermark,
         Fetched' => (body # None /\ task'.rev = watermark) \/ task' = task,
         Informed'
  PROVE  Inv'
<1> USE DEF cache, sse
<1>1. Types' /\ NothingInvented'
  BY DEF Inv, Types, NothingInvented, Newest, Fetched
<1>2. Together' /\ NoGap'
  BY DEF Inv, Together, NoGap, Receiving
<1>3. TaskAhead'
  BY DEF Inv, NothingInvented, TaskAhead, Fetched
<1> QED  BY <1>1, <1>2, <1>3 DEF Inv

\* LinkBreaks: some events may still be read, but nothing more will come.
LEMMA LinkBreaksInv ==
  ASSUME Inv, LinkBreaks
  PROVE  Inv'
<1> USE DEF cache, sse
<1>1. /\ events' \in Seq(0..MaxRevision) /\ Len(events') <= MaxEvents
      /\ \A i \in 1..Len(events') : events'[i] <= watermark
  <2>1. events \in Seq(0..MaxRevision) /\ Len(events) <= MaxEvents /\ MaxEvents \in Int
    BY FeedFacts DEF Inv, Types
  <2>2. events' \in Prefixes(events)
    BY DEF LinkBreaks
  <2>3. /\ events' \in Seq(0..MaxRevision) /\ Len(events') <= Len(events)
        /\ Len(events') \in Nat /\ Len(events) \in Nat
        /\ \A i \in 1..Len(events') : i \in 1..Len(events) /\ events'[i] = events[i]
    BY <2>1, <2>2, PrefixFacts
  <2> QED  BY <2>1, <2>3 DEF Inv, NothingInvented
<1>2. drops' \in 0..MaxDrops
  BY FeedFacts DEF LinkBreaks, Inv, Types
<1>3. UNCHANGED <<cache, task, following, sse, client>> /\ link' = FALSE
  BY DEF LinkBreaks
<1>4. Informed'
  BY <1>3 DEF Informed
<1>5. task \in [pc : {"listening", "fetching", "publishing", "sleeping", "recovering",
                      "republishing"}, rev : 0..MaxRevision]
  BY DEF Inv, Types
<1>6. task.pc \in {"fetching", "publishing", "republishing"} => task.rev <= watermark
  BY DEF Inv, NothingInvented, Fetched
<1> QED  BY <1>1, <1>2, <1>3, <1>4, <1>5, <1>6, TaskInv

\* Hear takes the oldest event; the new ones are still to be heard.
LEMMA HearInv ==
  ASSUME Inv, Hear
  PROVE  Inv'
<1>1. events \in Seq(0..MaxRevision) /\ events # <<>> /\ events' = Tail(events)
      /\ task' = [pc |-> "fetching", rev |-> Head(events)]
      /\ UNCHANGED <<cache, link, drops, following, sse, client>>
  BY DEF Hear, Inv, Types
<1>2. /\ Len(events) \in Nat \ {0} /\ Head(events) = events[1] /\ events[1] \in 0..MaxRevision
      /\ events' \in Seq(0..MaxRevision) /\ Len(events') = Len(events) - 1
      /\ \A i \in 1..Len(events') : i + 1 \in 1..Len(events) /\ events'[i] = events[i + 1]
  BY <1>1, TailFacts
<1>3. /\ \A i \in 1..Len(events') : events'[i] <= watermark
      /\ events[1] <= watermark
  BY <1>2 DEF Inv, NothingInvented
<1>4. Len(events') <= MaxEvents /\ link' \in BOOLEAN /\ drops' \in 0..MaxDrops
  BY <1>1, <1>2, FeedFacts DEF Inv, Types
<1>5. Informed' /\ ~Fetched'
  BY <1>1 DEF Informed, Fetched
<1> QED  BY <1>1, <1>2, <1>3, <1>4, <1>5, TaskInv

\* The task goes on to a step in which it holds no snapshot, and may give up its
\* subscription for a new one.
LEMMA TaskStepInv ==
  ASSUME Inv, NEW p \in {"listening", "sleeping", "recovering"},
         task' = [task EXCEPT !.pc = p],
         UNCHANGED <<cache, following, sse, client>>,
         link' \in BOOLEAN, drops' \in 0..MaxDrops, events' \in {events, <<>>},
         p = "listening" => body = None \/ stream.pc # "open"
  PROVE  Inv'
<1>1. /\ task' \in [pc : {"listening", "fetching", "publishing", "sleeping", "recovering",
                          "republishing"}, rev : 0..MaxRevision]
      /\ task'.pc = p
  BY DEF Inv, Types
<1>2. /\ events' \in Seq(0..MaxRevision) /\ Len(events') <= MaxEvents
      /\ \A i \in 1..Len(events') : events'[i] <= watermark
  <2>1. CASE events' = events
    BY <2>1 DEF Inv, Types, NothingInvented
  <2>2. CASE events' = <<>>
    BY <2>2, FeedFacts, EmptySeq
  <2> QED  BY <2>1, <2>2
<1>3. Informed' /\ ~Fetched'
  BY <1>1 DEF Informed, Fetched, cache, sse
<1> QED  BY <1>1, <1>2, <1>3, TaskInv

\* HearEnd, FetchFails: the task sleeps before it subscribes anew.
LEMMA SleepInv ==
  ASSUME Inv, HearEnd \/ FetchFails
  PROVE  Inv'
<1>1. drops' \in 0..MaxDrops /\ link \in BOOLEAN
  BY FeedFacts DEF Inv, Types, HearEnd, FetchFails
<1>2. task' = [task EXCEPT !.pc = "sleeping"]
      /\ UNCHANGED <<cache, link, events, following, sse, client>>
  BY DEF HearEnd, FetchFails
<1> QED  BY <1>1, <1>2, TaskStepInv

\* Resubscribe recovers the followed guilds, and an open stream is followed.
LEMMA ResubscribeInv ==
  ASSUME Inv, Resubscribe
  PROVE  Inv'
<1>1. ~following => stream.pc # "open"
  BY DEF Inv, Together, Receiving
<1>2. /\ link' \in BOOLEAN /\ drops' \in 0..MaxDrops /\ events' \in {events, <<>>}
      /\ UNCHANGED <<cache, following, sse, client>>
  BY DEF Resubscribe, Inv, Types
<1>3. CASE following
  BY <1>2, <1>3, TaskStepInv DEF Resubscribe
<1>4. CASE ~following
  BY <1>1, <1>2, <1>4, TaskStepInv DEF Resubscribe
<1> QED  BY <1>3, <1>4

\* FetchAnnounced, FetchCurrent: what is fetched is the newest snapshot, and a
\* cache without one, or with an older one than was announced, has none.
LEMMA FetchInv ==
  ASSUME Inv, FetchAnnounced \/ FetchCurrent
  PROVE  Inv'
<1>1. /\ link' \in BOOLEAN /\ drops' \in 0..MaxDrops /\ events' = events
      /\ UNCHANGED <<cache, link, following, sse, client>>
  BY DEF Inv, Types, FetchAnnounced, FetchCurrent
<1>2. body # None => body.rev = watermark /\ body.rev \in 0..MaxRevision
  BY TypeFacts DEF Inv, NothingInvented
<1>3. ASSUME NEW p \in {"publishing", "republishing"}, body # None,
             task' = [pc |-> p, rev |-> body.rev]
      PROVE  Inv'
  <2>1. Informed'
    BY <1>1, <1>2, <1>3 DEF Informed, Fetched, cache
  <2>2. \A i \in 1..Len(events) : events[i] <= watermark
    BY DEF Inv, NothingInvented
  <2>3. task'.rev = watermark /\ task'.rev <= watermark
    BY <1>2, <1>3, TypeFacts DEF Inv
  <2>4. events \in Seq(0..MaxRevision) /\ Len(events) <= MaxEvents
    BY DEF Inv, Types
  <2> QED  BY <1>1, <1>2, <1>3, <2>1, <2>2, <2>3, <2>4, TaskInv
<1>4. ASSUME body = None, task' = [task EXCEPT !.pc = "listening"]
      PROVE  Inv'
  BY <1>1, <1>4, TaskStepInv
<1>5. FetchAnnounced /\ body # None => body.rev >= task.rev
  BY <1>2, TypeFacts DEF FetchAnnounced, Inv, NothingInvented
<1>6. CASE FetchAnnounced
  BY <1>3, <1>4, <1>5, <1>6 DEF FetchAnnounced
<1>7. CASE FetchCurrent
  BY <1>3, <1>4, <1>7 DEF FetchCurrent
<1> QED  BY <1>6, <1>7

\* PublishFetched: the receiver gets what was fetched, at the cost of its oldest
\* snapshot when it is full, which it is told of.
LEMMA PublishInv ==
  ASSUME Inv, PublishFetched
  PROVE  Inv'
<1> DEFINE kept == IF Len(queue) < Capacity THEN queue ELSE Tail(queue)
<1>1. /\ UNCHANGED <<body, watermark, link, drops, events, following, stream, frames, client>>
      /\ task' = [task EXCEPT !.pc = "listening"]
      /\ task.pc \in {"publishing", "republishing"} /\ Publish(task.rev)
  BY DEF PublishFetched, cache
<1>2. /\ task.rev \in 0..MaxRevision /\ task.rev \in Int /\ task.rev <= watermark
      /\ watermark \in Int
      /\ \A i \in 1..Len(queue) : queue[i] \in Int /\ queue[i] <= task.rev /\ queue[i] <= watermark
  BY <1>1, TypeFacts, IntFacts DEF Inv, NothingInvented, TaskAhead, Fetched
<1>3. /\ queue \in Seq(0..MaxRevision) /\ Len(queue) \in Nat /\ Len(queue) <= Capacity
      /\ lagged \in BOOLEAN
  BY LenProperties DEF Inv, Types
<1>4. /\ kept \in Seq(0..MaxRevision) /\ Len(kept) \in Nat /\ Len(kept) < Capacity
      /\ \A i \in 1..Len(kept) : kept[i] \in Int /\ kept[i] <= watermark
  <2>1. CASE Len(queue) < Capacity
    BY <1>2, <1>3, <2>1
  <2>2. CASE ~(Len(queue) < Capacity)
    <3>1. queue # <<>>
      BY <1>3, <2>2, FeedFacts, EmptySeq
    <3>2. /\ Tail(queue) \in Seq(0..MaxRevision) /\ Len(Tail(queue)) = Len(queue) - 1
          /\ Len(queue) \in Nat \ {0}
          /\ \A i \in 1..Len(Tail(queue)) : i + 1 \in 1..Len(queue) /\ Tail(queue)[i] = queue[i + 1]
      BY <1>3, <3>1, TailFacts
    <3> QED  BY <1>2, <1>3, <2>2, <3>2, FeedFacts
  <2> QED  BY <2>1, <2>2
<1>5. \/ ~Receiving /\ queue' = queue /\ lagged' = lagged
      \/ Receiving /\ queue' = Append(kept, task.rev) /\ lagged' \in {lagged, TRUE}
  BY <1>1 DEF Publish
<1> HIDE DEF kept
<1>6. /\ queue' \in Seq(0..MaxRevision) /\ Len(queue') <= Capacity
      /\ \A i \in 1..Len(queue') : queue'[i] <= watermark
      /\ Receiving => queue' # <<>> /\ Last(queue') = task.rev
      /\ lagged' \in BOOLEAN
  <2>1. CASE ~Receiving
    BY <1>2, <1>3, <1>5, <2>1
  <2>2. CASE Receiving
    <3>1. queue' = Append(kept, task.rev)
      BY <1>5, <2>2
    <3>2. /\ queue' \in Seq(0..MaxRevision) /\ queue' # <<>> /\ Len(queue') <= Capacity
          /\ \A i \in 1..Len(queue') : queue'[i] <= watermark
      BY <1>2, <1>4, <3>1, FeedFacts, QueueFacts
    <3>3. Last(queue') = Last(Append(kept, task.rev)) /\ Last(Append(kept, task.rev)) = task.rev
      BY <1>2, <1>4, <3>1, FeedFacts, QueueFacts DEF Last
    <3> QED  BY <1>3, <1>5, <2>2, <3>2, <3>3
  <2> QED  BY <2>1, <2>2
<1>7. task' \in [pc : {"listening", "fetching", "publishing", "sleeping", "recovering",
                       "republishing"}, rev : 0..MaxRevision]
      /\ task'.pc = "listening"
  BY <1>1 DEF Inv, Types
<1>8. Types'
  BY <1>1, <1>6, <1>7 DEF Inv, Types
<1>9. NothingInvented'
  BY <1>1, <1>6, <1>7 DEF Inv, NothingInvented, Newest, Fetched
<1>10. Together' /\ NoGap' /\ TaskAhead'
  BY <1>1, <1>7 DEF Inv, Together, NoGap, TaskAhead, Fetched, Receiving
<1>11. Informed'
  <2> SUFFICES ASSUME body # None, link, stream.pc = "open", ~lagged'
               PROVE  Informed'
    BY <1>1 DEF Informed
  <2>1. Receiving /\ ~lagged
    BY <1>1, <1>3, <1>5 DEF Receiving
  <2>2. CASE (events # <<>> /\ events[Len(events)] = watermark) \/ stream.last >= watermark
    BY <1>1, <2>2 DEF Informed
  <2>3. CASE task.rev = watermark
    BY <1>1, <1>6, <2>1, <2>3 DEF Informed, Last
  <2>4. CASE queue # <<>> /\ queue[Len(queue)] = watermark
    <3>1. Len(queue) \in 1..Len(queue)
      BY <1>3, <2>4, EmptySeq
    <3> QED  BY <1>2, <2>3, <2>4, <3>1
  <2> QED  BY <1>1, <2>1, <2>2, <2>3, <2>4 DEF Inv, Informed
<1> QED  BY <1>8, <1>9, <1>10, <1>11 DEF Inv

-----------------------------------------------------------------------------
(* The response and the browser.                                           *)

\* The invariant when only the receiver, the response and the browser move.
LEMMA PageInv ==
  ASSUME Inv,
         UNCHANGED <<cache, link, events, drops, task>>,
         following' \in BOOLEAN,
         queue' \in Seq(0..MaxRevision), Len(queue') <= Capacity, lagged' \in BOOLEAN,
         \A i \in 1..Len(queue') : \E j \in 1..Len(queue) : queue'[i] = queue[j],
         stream' \in [pc : {"closed", "subscribed", "open", "ended"}, last : 0..MaxRevision],
         stream'.last <= Newest,
         frames' \in Seq(Frames), Len(frames') <= MaxFrames,
         \A i \in 1..Len(frames') : frames'[i].rev <= Newest,
         client' \in [pc : {"fetch", "request", "streaming", "waiting"},
                      last : 0..MaxRevision \cup {-1}, current : 0..MaxRevision \cup {-1},
                      shown : 0..MaxRevision \cup {-1}],
         client'.shown <= Newest,
         Together', NoGap', Informed'
  PROVE  Inv'
<1> USE DEF cache
<1>1. Types' /\ NothingInvented'
  BY DEF Inv, Types, NothingInvented, Newest, Fetched
<1>2. TaskAhead'
  BY DEF Inv, TaskAhead, Fetched
<1> QED  BY <1>1, <1>2 DEF Inv

\* What PageInv asks of the parts that stay.
LEMMA KeptFacts ==
  ASSUME Inv
  PROVE  /\ following \in BOOLEAN /\ lagged \in BOOLEAN
         /\ queue \in Seq(0..MaxRevision) /\ Len(queue) <= Capacity
         /\ stream \in [pc : {"closed", "subscribed", "open", "ended"}, last : 0..MaxRevision]
         /\ stream.last <= Newest
         /\ frames \in Seq(Frames) /\ Len(frames) <= MaxFrames /\ Len(frames) \in Nat
         /\ \A i \in 1..Len(frames) : frames[i].rev <= Newest
         /\ client \in [pc : {"fetch", "request", "streaming", "waiting"},
                        last : 0..MaxRevision \cup {-1}, current : 0..MaxRevision \cup {-1},
                        shown : 0..MaxRevision \cup {-1}]
         /\ client.shown <= Newest
BY LenProperties DEF Inv, Types, NothingInvented

\* Subscribe: from here on the receiver hears of everything.
LEMMA SubscribeInv ==
  ASSUME Inv, Subscribe
  PROVE  Inv'
<1>1. /\ client.pc = "request" /\ stream.pc = "closed"
      /\ stream' = [stream EXCEPT !.pc = "subscribed"]
      /\ following' = TRUE /\ queue' = <<>> /\ lagged' = FALSE
      /\ UNCHANGED <<cache, link, events, drops, task>> /\ UNCHANGED <<frames, client>>
  BY DEF Subscribe
<1>2. stream' \in [pc : {"closed", "subscribed", "open", "ended"}, last : 0..MaxRevision]
      /\ stream'.pc = "subscribed" /\ stream'.last = stream.last
  BY <1>1, KeptFacts
<1>3. Together' /\ NoGap' /\ Informed'
  BY <1>1, <1>2, EmptySeq DEF Inv, Together, NoGap, Informed, Receiving
<1>4. /\ queue' \in Seq(0..MaxRevision) /\ Len(queue') <= Capacity
      /\ \A i \in 1..Len(queue') : \E j \in 1..Len(queue) : queue'[i] = queue[j]
  BY <1>1, FeedFacts, EmptySeq
<1>5. following' \in BOOLEAN /\ lagged' \in BOOLEAN /\ stream'.last <= Newest
  BY <1>1, <1>2, KeptFacts
<1>6. /\ frames' \in Seq(Frames) /\ Len(frames') <= MaxFrames
      /\ \A i \in 1..Len(frames') : frames'[i].rev <= Newest
  BY <1>1, KeptFacts
<1>7. /\ client' \in [pc : {"fetch", "request", "streaming", "waiting"},
                      last : 0..MaxRevision \cup {-1}, current : 0..MaxRevision \cup {-1},
                      shown : 0..MaxRevision \cup {-1}]
      /\ client'.shown <= Newest
  BY <1>1, KeptFacts
<1> QED  BY <1>1, <1>2, <1>3, <1>4, <1>5, <1>6, <1>7, PageInv

\* Open: the initial snapshot is what the cache holds now.
LEMMA OpenInv ==
  ASSUME Inv, Open
  PROVE  Inv'
<1> DEFINE first == [kind |-> "snapshot", rev |-> Current]
<1>1. /\ stream.pc = "subscribed" /\ stream' = [pc |-> "open", last |-> Current]
      /\ frames' = <<first>> /\ client' = [client EXCEPT !.pc = "streaming"]
      /\ UNCHANGED <<cache, link, events, drops, task>> /\ UNCHANGED <<following, queue, lagged>>
  BY DEF Open, backend, cache
<1>2. /\ Current \in 0..MaxRevision /\ Current <= Newest
      /\ body # None => Current = watermark
  BY TypeFacts DEF Inv, Types, NothingInvented, Current, Newest
<1>3. first \in Frames /\ first.kind = "snapshot" /\ first.rev = Current
  BY <1>2, FeedFacts DEF Frames
<1> HIDE DEF first
<1>4. /\ frames' \in Seq(Frames) /\ Len(frames') = 1 /\ frames'[1] = first /\ frames' # <<>>
      /\ Len(frames') <= MaxFrames
  BY <1>1, <1>3, FeedFacts
<1>5. /\ client' \in [pc : {"fetch", "request", "streaming", "waiting"},
                      last : 0..MaxRevision \cup {-1}, current : 0..MaxRevision \cup {-1},
                      shown : 0..MaxRevision \cup {-1}]
      /\ client'.pc = "streaming" /\ client'.last = client.last
      /\ client'.current = client.current /\ client'.shown = client.shown
  BY <1>1, KeptFacts
<1>6. stream'.pc = "open" /\ stream'.last = Current
      /\ stream' \in [pc : {"closed", "subscribed", "open", "ended"}, last : 0..MaxRevision]
  BY <1>1, <1>2
<1>7. Together'
  BY <1>1, <1>5, <1>6 DEF Inv, Together, Receiving
<1>8. NoGap'
  BY <1>3, <1>4, <1>6 DEF NoGap
<1>9. Informed'
  BY <1>1, <1>2, <1>6, IntFacts DEF Inv, Informed, cache
<1>10. \A i \in 1..Len(frames') : frames'[i].rev <= Newest
  BY <1>2, <1>3, <1>4
<1>11. /\ \A i \in 1..Len(queue') : \E j \in 1..Len(queue) : queue'[i] = queue[j]
       /\ stream'.last <= Newest /\ client'.shown <= Newest
  BY <1>1, <1>2, <1>5, <1>6, KeptFacts
<1> QED  BY <1>1, <1>4, <1>5, <1>6, <1>7, <1>8, <1>9, <1>10, <1>11, KeptFacts, PageInv

\* The response's frames, with one more: a resync that ends it, or the next
\* revision; what is there stays connected to the browser.
LEMMA MoreFrames ==
  ASSUME Inv, stream.pc = "open", Len(frames) < MaxFrames,
         NEW f \in Frames, f.rev <= Newest,
         frames' = Append(frames, f), client' = client,
         stream'.last = f.rev,
         \/ f.kind = "resync" /\ stream'.pc = "ended"
         \/ f.kind = "player" /\ stream'.pc = "open" /\ f.rev = stream.last + 1
  PROVE  /\ frames' \in Seq(Frames) /\ Len(frames') <= MaxFrames
         /\ \A i \in 1..Len(frames') : frames'[i].rev <= Newest
         /\ NoGap'
<1> DEFINE more == Append(frames, f)
<1>1. /\ frames \in Seq(Frames) /\ Len(frames) \in Nat /\ MaxFrames \in Nat
      /\ client.current \in Int /\ stream.last \in Int /\ f.rev \in Int
      /\ \A i \in 1..Len(frames) : frames[i].rev \in Int /\ frames[i].rev <= Newest
  <2>1. f.rev \in Int
    BY FeedFacts DEF Frames
  <2> QED  BY <2>1, KeptFacts, IntFacts, FeedFacts DEF Inv
<1>2. /\ more \in Seq(Frames) /\ more # <<>> /\ Len(more) = Len(frames) + 1
      /\ \A i \in 1..Len(frames) : more[i] = frames[i]
      /\ more[Len(frames) + 1] = f
      /\ \A i \in 1..Len(more) : i \in 1..Len(frames) \/ i = Len(frames) + 1
  BY <1>1, AppendFacts
<1>3. frames' = more
  OBVIOUS
<1> HIDE DEF more
<1>4. Len(more) <= MaxFrames /\ \A i \in 1..Len(more) : more[i].rev <= Newest
  BY <1>1, <1>2
<1>5. \A i \in 1..Len(more) : more[i].kind = "resync" => i = Len(more) /\ stream'.pc = "ended"
  BY <1>1, <1>2 DEF Inv, NoGap
<1>6. \A i \in 1..Len(more) : more[i].kind = "player" =>
        IF i = 1 THEN more[i].rev <= client.current + 1
        ELSE more[i].rev = more[i - 1].rev + 1
  <2>1. ASSUME NEW i \in 1..Len(frames), more[i].kind = "player"
        PROVE  IF i = 1 THEN more[i].rev <= client.current + 1
               ELSE more[i].rev = more[i - 1].rev + 1
    <3>0. i # 1 => i - 1 \in 1..Len(frames)
      BY <1>1
    <3>1. /\ i \in Int /\ more[i] = frames[i]
          /\ i # 1 => more[i - 1] = frames[i - 1]
      BY <1>2, <3>0
    <3>2. IF i = 1 THEN frames[i].rev <= client.current + 1
          ELSE frames[i].rev = frames[i - 1].rev + 1
      BY <2>1, <3>1 DEF Inv, NoGap
    <3> QED  BY <3>1, <3>2
  <2>2. ASSUME f.kind = "player", frames = <<>>
        PROVE  Len(frames) + 1 = 1 /\ f.rev <= client.current + 1
    BY <1>1, <2>2, EmptySeq DEF Inv, NoGap
  <2>3. ASSUME f.kind = "player", frames # <<>>
        PROVE  Len(frames) \in 1..Len(frames) /\ f.rev = more[Len(frames)].rev + 1
    <3>1. Len(frames) \in 1..Len(frames)
      BY <1>1, <2>3, EmptySeq
    <3> QED  BY <1>2, <2>3, <3>1 DEF Inv, NoGap
  <2> QED  BY <1>1, <1>2, <2>1, <2>2, <2>3
<1>7. stream'.pc = "open" => more[Len(more)].rev = stream'.last
  BY <1>2
<1> QED  BY <1>2, <1>3, <1>4, <1>5, <1>6, <1>7 DEF NoGap

\* SendNext: what the receiver had lost or what does not follow ends the
\* response, what it has sent already is dropped.
LEMMA SendInv ==
  ASSUME Inv, SendNext
  PROVE  Inv'
<1>1. /\ stream.pc = "open" /\ Len(frames) < MaxFrames
      /\ UNCHANGED <<cache, link, events, drops, task>> /\ UNCHANGED <<following, client>>
  BY DEF SendNext, backend
<1>2. Together => client.pc = "streaming" /\ following
  BY <1>1 DEF Together, Receiving
<1>3. \A i \in 1..Len(queue) : queue[i] \in 0..MaxRevision /\ queue[i] \in Int
                               /\ queue[i] <= watermark
  BY TypeFacts, IntFacts DEF Inv, NothingInvented
<1>4. /\ watermark <= Newest /\ watermark \in Int /\ Newest \in Int
      /\ stream.last \in Int /\ stream.last \in 0..MaxRevision /\ stream.last <= Newest
  BY TypeFacts, IntFacts, KeptFacts DEF Inv
<1>5. ASSUME queue # <<>>, queue' = Tail(queue), lagged' = lagged
      PROVE  /\ Head(queue) \in 0..MaxRevision /\ Head(queue) <= watermark
             /\ Head(queue) \in Int
             /\ queue' \in Seq(0..MaxRevision) /\ Len(queue') <= Capacity
             /\ \A i \in 1..Len(queue') : \E j \in 1..Len(queue) : queue'[i] = queue[j]
             /\ queue' = <<>> => Last(queue) = Head(queue)
             /\ queue' # <<>> => Last(queue') = Last(queue)
  <2>1. queue \in Seq(0..MaxRevision) /\ Len(queue) <= Capacity /\ Capacity \in Nat
    BY KeptFacts, FeedFacts
  <2>2. /\ Len(queue) \in Nat \ {0} /\ Head(queue) = queue[1]
        /\ queue' \in Seq(0..MaxRevision) /\ Len(queue') = Len(queue) - 1
        /\ \A i \in 1..Len(queue') : i + 1 \in 1..Len(queue) /\ queue'[i] = queue[i + 1]
        /\ queue' = <<>> <=> Len(queue) = 1
        /\ queue' # <<>> => Last(queue') = Last(queue)
    BY <1>5, <2>1, TailFacts
  <2> QED  BY <1>3, <2>1, <2>2 DEF Last
<1>6. \A p \in {"ended", "open"}, r \in 0..MaxRevision :
        stream' = [stream EXCEPT !.pc = p, !.last = r] =>
          /\ stream' \in [pc : {"closed", "subscribed", "open", "ended"}, last : 0..MaxRevision]
          /\ stream'.pc = p /\ stream'.last = r
  BY KeptFacts
<1>7. ASSUME NEW f \in Frames, f.kind = "resync", f.rev = stream.last,
             frames' = Append(frames, f), stream' = [stream EXCEPT !.pc = "ended"],
             lagged' = lagged,
             queue' \in Seq(0..MaxRevision), Len(queue') <= Capacity,
             \A i \in 1..Len(queue') : \E j \in 1..Len(queue) : queue'[i] = queue[j]
      PROVE  Inv'
  <2>1. /\ stream' \in [pc : {"closed", "subscribed", "open", "ended"}, last : 0..MaxRevision]
        /\ stream'.pc = "ended" /\ stream'.last = stream.last
    BY <1>7, KeptFacts
  <2>2. /\ frames' \in Seq(Frames) /\ Len(frames') <= MaxFrames
        /\ \A i \in 1..Len(frames') : frames'[i].rev <= Newest
        /\ NoGap'
    BY <1>1, <1>4, <1>7, <2>1, MoreFrames
  <2>3. Together' /\ Informed'
    BY <1>1, <1>2, <2>1 DEF Inv, Together, Informed, Receiving
  <2>4. /\ following' \in BOOLEAN /\ lagged' \in BOOLEAN
        /\ client'.shown <= Newest
        /\ client' \in [pc : {"fetch", "request", "streaming", "waiting"},
                        last : 0..MaxRevision \cup {-1}, current : 0..MaxRevision \cup {-1},
                        shown : 0..MaxRevision \cup {-1}]
    BY <1>1, <1>7, KeptFacts
  <2>5. stream'.last <= Newest
    BY <1>4, <2>1
  <2>6. /\ queue' \in Seq(0..MaxRevision) /\ Len(queue') <= Capacity
        /\ \A i \in 1..Len(queue') : \E j \in 1..Len(queue) : queue'[i] = queue[j]
    BY <1>7
  <2> QED  BY <1>1, <2>1, <2>2, <2>3, <2>4, <2>5, <2>6, PageInv
<1>8. ASSUME lagged' = lagged, queue # <<>>, queue' = Tail(queue),
             Head(queue) <= stream.last, stream' = stream, frames' = frames, ~lagged
      PROVE  Inv'
  <2>1. Together' /\ NoGap'
    BY <1>1, <1>8 DEF Inv, Together, NoGap, Receiving
  <2>2. Informed'
    <3> SUFFICES ASSUME body # None, link
                 PROVE  Informed'
      BY <1>1 DEF Informed, cache
    <3>1. CASE queue # <<>> /\ queue[Len(queue)] = watermark
      <4>1. CASE queue' = <<>>
        <5>1. stream.last >= watermark
          BY <1>3, <1>4, <1>5, <1>8, <3>1, <4>1 DEF Last
        <5> QED  BY <1>1, <1>8, <5>1 DEF Informed, cache
      <4>2. CASE queue' # <<>>
        BY <1>1, <1>5, <1>8, <3>1, <4>2 DEF Informed, Last, cache
      <4> QED  BY <4>1, <4>2
    <3>2. CASE ~(queue # <<>> /\ queue[Len(queue)] = watermark)
      BY <1>1, <1>8, <3>2 DEF Inv, Informed, Fetched, cache
    <3> QED  BY <3>1, <3>2
  <2>3. /\ following' \in BOOLEAN /\ lagged' \in BOOLEAN
        /\ client'.shown <= Newest
        /\ client' \in [pc : {"fetch", "request", "streaming", "waiting"},
                        last : 0..MaxRevision \cup {-1}, current : 0..MaxRevision \cup {-1},
                        shown : 0..MaxRevision \cup {-1}]
        /\ stream' \in [pc : {"closed", "subscribed", "open", "ended"}, last : 0..MaxRevision]
        /\ stream'.last <= Newest
        /\ frames' \in Seq(Frames) /\ Len(frames') <= MaxFrames
        /\ \A i \in 1..Len(frames') : frames'[i].rev <= Newest
    BY <1>1, <1>8, KeptFacts
  <2>4. /\ queue' \in Seq(0..MaxRevision) /\ Len(queue') <= Capacity
        /\ \A i \in 1..Len(queue') : \E j \in 1..Len(queue) : queue'[i] = queue[j]
    BY <1>5, <1>8
  <2> QED  BY <1>1, <2>1, <2>2, <2>3, <2>4, PageInv
<1>9. ASSUME lagged' = lagged, queue # <<>>, queue' = Tail(queue), ~lagged,
             Head(queue) = stream.last + 1, NEW f \in Frames,
             f = [kind |-> "player", rev |-> Head(queue)],
             frames' = Append(frames, f),
             stream' = [stream EXCEPT !.last = Head(queue)]
      PROVE  Inv'
  <2>1. /\ stream' \in [pc : {"closed", "subscribed", "open", "ended"}, last : 0..MaxRevision]
        /\ stream'.pc = "open" /\ stream'.last = Head(queue)
    BY <1>1, <1>5, <1>9, KeptFacts
  <2>2. /\ frames' \in Seq(Frames) /\ Len(frames') <= MaxFrames
        /\ \A i \in 1..Len(frames') : frames'[i].rev <= Newest
        /\ NoGap'
    <3>1. f.rev <= Newest /\ f.kind = "player" /\ f.rev = Head(queue)
      BY <1>4, <1>5, <1>9
    <3> QED  BY <1>1, <1>9, <2>1, <3>1, MoreFrames
  <2>3. Together'
    BY <1>1, <1>2, <2>1, AppendProperties DEF Inv, Together, Receiving
  <2>4. Informed'
    <3> SUFFICES ASSUME body # None, link
                 PROVE  Informed'
      BY <1>1 DEF Informed, cache
    <3>1. CASE queue # <<>> /\ queue[Len(queue)] = watermark
      <4>1. CASE queue' = <<>>
        <5>1. stream'.last >= watermark
          BY <1>3, <1>4, <1>5, <1>9, <2>1, <3>1, <4>1 DEF Last
        <5> QED  BY <1>1, <5>1 DEF Informed, cache
      <4>2. CASE queue' # <<>>
        BY <1>1, <1>5, <1>9, <3>1, <4>2 DEF Informed, Last, cache
      <4> QED  BY <4>1, <4>2
    <3>2. CASE stream.last >= watermark
      <4>1. stream'.last >= watermark
        BY <1>4, <1>9, <2>1, <3>2
      <4> QED  BY <1>1, <4>1 DEF Informed, cache
    <3>3. CASE ~(queue # <<>> /\ queue[Len(queue)] = watermark) /\ ~(stream.last >= watermark)
      BY <1>1, <1>9, <3>3 DEF Inv, Informed, Fetched, cache
    <3> QED  BY <3>1, <3>2, <3>3
  <2>5. /\ following' \in BOOLEAN /\ lagged' \in BOOLEAN
        /\ client'.shown <= Newest
        /\ client' \in [pc : {"fetch", "request", "streaming", "waiting"},
                        last : 0..MaxRevision \cup {-1}, current : 0..MaxRevision \cup {-1},
                        shown : 0..MaxRevision \cup {-1}]
    BY <1>1, <1>9, KeptFacts
  <2>6. /\ queue' \in Seq(0..MaxRevision) /\ Len(queue') <= Capacity
        /\ \A i \in 1..Len(queue') : \E j \in 1..Len(queue) : queue'[i] = queue[j]
    BY <1>5, <1>9
  <2>7. stream'.last <= Newest
    BY <1>4, <1>5, <1>9, <2>1
  <2> QED  BY <1>1, <2>1, <2>2, <2>3, <2>4, <2>5, <2>6, <2>7, PageInv
<1>10. [kind |-> "resync", rev |-> stream.last] \in Frames
  BY <1>4, FeedFacts DEF Frames
<1>11. queue # <<>> => [kind |-> "player", rev |-> Head(queue)] \in Frames
  <2>1. queue # <<>> => Head(queue) \in 0..MaxRevision
    BY KeptFacts, HeadTailProperties
  <2> QED  BY <2>1, FeedFacts DEF Frames
<1>12. CASE lagged
  <2>1. /\ frames' = Append(frames, [kind |-> "resync", rev |-> stream.last])
        /\ stream' = [stream EXCEPT !.pc = "ended"] /\ queue' = queue /\ lagged' = lagged
    BY <1>12 DEF SendNext
  <2>2. /\ queue' \in Seq(0..MaxRevision) /\ Len(queue') <= Capacity
        /\ \A i \in 1..Len(queue') : \E j \in 1..Len(queue) : queue'[i] = queue[j]
    BY <2>1, KeptFacts
  <2> QED  BY <1>7, <1>10, <2>1, <2>2
<1>13. CASE ~lagged
  <2>1. queue # <<>> /\ queue' = Tail(queue) /\ lagged' = lagged
    BY <1>13 DEF SendNext
  <2>2. CASE Head(queue) <= stream.last /\ stream' = stream /\ frames' = frames
    BY <1>8, <1>13, <2>1, <2>2
  <2>3. CASE /\ frames' = Append(frames, [kind |-> "resync", rev |-> stream.last])
             /\ stream' = [stream EXCEPT !.pc = "ended"]
    <3>1. /\ queue' \in Seq(0..MaxRevision) /\ Len(queue') <= Capacity
          /\ \A i \in 1..Len(queue') : \E j \in 1..Len(queue) : queue'[i] = queue[j]
      BY <1>5, <2>1
    <3> QED  BY <1>7, <1>10, <2>1, <2>3, <3>1
  <2>4. CASE /\ InOrder(Head(queue))
             /\ frames' = Append(frames, [kind |-> "player", rev |-> Head(queue)])
             /\ stream' = [stream EXCEPT !.last = Head(queue)]
    BY <1>9, <1>11, <1>13, <2>1, <2>4 DEF InOrder
  <2> QED  BY <1>13, <2>2, <2>3, <2>4 DEF SendNext
<1> QED  BY <1>12, <1>13

\* StreamEnds: the browser may still read some of what was sent, none of which is
\* a resync.
LEMMA StreamEndsInv ==
  ASSUME Inv, StreamEnds
  PROVE  Inv'
<1>1. /\ stream.pc = "open" /\ stream' = [stream EXCEPT !.pc = "ended"]
      /\ frames' \in Prefixes(frames)
      /\ UNCHANGED <<cache, link, events, drops, task>>
      /\ UNCHANGED <<following, queue, lagged, client>>
  BY DEF StreamEnds, backend
<1>2. /\ stream' \in [pc : {"closed", "subscribed", "open", "ended"}, last : 0..MaxRevision]
      /\ stream'.pc = "ended" /\ stream'.last = stream.last
  BY <1>1, KeptFacts
<1>3. frames \in Seq(Frames) /\ Len(frames) <= MaxFrames /\ MaxFrames \in Nat
  BY KeptFacts, FeedFacts
<1>4. /\ frames' \in Seq(Frames) /\ Len(frames') <= Len(frames)
      /\ Len(frames') \in Nat /\ Len(frames) \in Nat
      /\ \A i \in 1..Len(frames') : i \in 1..Len(frames) /\ frames'[i] = frames[i]
  BY <1>1, <1>3, PrefixFacts
<1>5. Len(frames') <= MaxFrames /\ \A i \in 1..Len(frames') : frames'[i].rev <= Newest
  BY <1>3, <1>4, KeptFacts
<1>6. Together' /\ Informed'
  BY <1>1, <1>2 DEF Inv, Together, Informed, Receiving
<1>7. \A i \in 1..Len(frames') :
        /\ frames'[i].kind # "resync"
        /\ frames'[i].kind = "player" =>
             IF i = 1 THEN frames'[i].rev <= client.current + 1
             ELSE frames'[i].rev = frames'[i - 1].rev + 1
  <2>1. \A i \in 1..Len(frames') : i # 1 => i - 1 \in 1..Len(frames')
    BY <1>4
  <2> QED  BY <1>1, <1>4, <2>1 DEF Inv, NoGap
<1>8. NoGap'
  BY <1>1, <1>2, <1>7 DEF NoGap
<1>9. /\ following' \in BOOLEAN /\ lagged' \in BOOLEAN
      /\ client'.shown <= Newest
      /\ client' \in [pc : {"fetch", "request", "streaming", "waiting"},
                      last : 0..MaxRevision \cup {-1}, current : 0..MaxRevision \cup {-1},
                      shown : 0..MaxRevision \cup {-1}]
      /\ stream'.last <= Newest
      /\ queue' \in Seq(0..MaxRevision) /\ Len(queue') <= Capacity
      /\ \A i \in 1..Len(queue') : \E j \in 1..Len(queue) : queue'[i] = queue[j]
  BY <1>1, <1>2, KeptFacts
<1> QED  BY <1>1, <1>2, <1>4, <1>5, <1>6, <1>8, <1>9, PageInv

\* The invariant when the browser goes on outside a response, or drops it.
LEMMA OutsideInv ==
  ASSUME Inv, UNCHANGED <<cache, backend, queue, lagged>>,
         client' \in [pc : {"fetch", "request", "waiting"},
                      last : 0..MaxRevision \cup {-1}, current : 0..MaxRevision \cup {-1},
                      shown : 0..MaxRevision \cup {-1}],
         client'.last = client'.shown, client'.current = client'.shown,
         client'.shown <= Newest,
         stream' \in [pc : {"closed", "subscribed", "open", "ended"}, last : 0..MaxRevision],
         stream'.last = stream.last, stream'.pc = "closed", frames' = <<>>
  PROVE  Inv'
<1>1. /\ frames' \in Seq(Frames) /\ Len(frames') = 0 /\ Len(frames') <= MaxFrames
      /\ \A i \in 1..Len(frames') : frames'[i].rev <= Newest
  BY FeedFacts, EmptySeq
<1>2. Together' /\ NoGap' /\ Informed'
  BY <1>1 DEF Together, NoGap, Informed, Receiving
<1>3. /\ following' \in BOOLEAN /\ lagged' \in BOOLEAN /\ stream'.last <= Newest
      /\ queue' \in Seq(0..MaxRevision) /\ Len(queue') <= Capacity
      /\ \A i \in 1..Len(queue') : \E j \in 1..Len(queue) : queue'[i] = queue[j]
  BY KeptFacts DEF backend
<1>4. UNCHANGED <<cache, link, events, drops, task>>
  BY DEF backend
<1>5. client' \in [pc : {"fetch", "request", "streaming", "waiting"},
                   last : 0..MaxRevision \cup {-1}, current : 0..MaxRevision \cup {-1},
                   shown : 0..MaxRevision \cup {-1}]
  OBVIOUS
<1> QED  BY <1>1, <1>2, <1>3, <1>4, <1>5, PageInv

\* Outside a response there are no frames.
LEMMA OutsideFacts ==
  ASSUME Inv, client.pc \in {"fetch", "waiting"}
  PROVE  stream.pc = "closed" /\ frames = <<>>
<1>1. stream.pc \in {"closed", "subscribed", "open", "ended"}
  BY DEF Inv, Types
<1> QED  BY <1>1 DEF Inv, Together

\* The browser goes on to step p, and drops the response if it had one.
LEMMA GoOnInv ==
  ASSUME Inv, NEW p \in {"fetch", "waiting"},
         client' = [client EXCEPT !.pc = p],
         UNCHANGED <<cache, backend, queue, lagged>>,
         \/ stream' = [stream EXCEPT !.pc = "closed"] /\ frames' = <<>>
         \/ client.pc \in {"fetch", "waiting"} /\ stream' = stream /\ frames' = frames
  PROVE  Inv'
<1>1. /\ client' \in [pc : {"fetch", "request", "waiting"},
                      last : 0..MaxRevision \cup {-1}, current : 0..MaxRevision \cup {-1},
                      shown : 0..MaxRevision \cup {-1}]
      /\ client'.last = client.last /\ client'.current = client.current
      /\ client'.shown = client.shown
  BY KeptFacts
<1>2. client'.last = client'.shown /\ client'.current = client'.shown /\ client'.shown <= Newest
  BY <1>1, KeptFacts DEF Inv, Together
<1>3. /\ stream' \in [pc : {"closed", "subscribed", "open", "ended"}, last : 0..MaxRevision]
      /\ stream'.last = stream.last /\ stream'.pc = "closed" /\ frames' = <<>>
  BY KeptFacts, OutsideFacts
<1> QED  BY <1>1, <1>2, <1>3, OutsideInv

\* PollFails, Retry, RequestFails, ReadEnd
LEMMA BrowserStepInv ==
  ASSUME Inv, PollFails \/ Retry \/ RequestFails \/ ReadEnd
  PROVE  Inv'
<1>1. CASE PollFails
  BY <1>1, GoOnInv DEF PollFails, sse
<1>2. CASE Retry
  BY <1>2, GoOnInv DEF Retry, sse
<1>3. CASE RequestFails
  BY <1>3, GoOnInv DEF RequestFails, GiveUp
<1>4. CASE ReadEnd
  BY <1>4, GoOnInv DEF ReadEnd, GiveUp
<1> QED  BY <1>1, <1>2, <1>3, <1>4

\* Poll: an answer that is older than what is shown is given up.
LEMMA PollInv ==
  ASSUME Inv, Poll
  PROVE  Inv'
<1>1. client.pc = "fetch" /\ UNCHANGED <<cache, backend, sse>>
  BY DEF Poll
<1>2. CASE client' = [client EXCEPT !.pc = "waiting"]
  BY <1>1, <1>2, GoOnInv DEF sse
<1>3. CASE client' = [pc |-> "request", last |-> Current, current |-> Current,
                      shown |-> Current]
  <2>1. Current \in 0..MaxRevision /\ Current <= Newest
    BY TypeFacts DEF Inv, Types, NothingInvented, Current, Newest
  <2>2. /\ client' \in [pc : {"fetch", "request", "waiting"},
                        last : 0..MaxRevision \cup {-1}, current : 0..MaxRevision \cup {-1},
                        shown : 0..MaxRevision \cup {-1}]
        /\ client'.last = client'.shown /\ client'.current = client'.shown
        /\ client'.shown <= Newest
    BY <1>3, <2>1
  <2>3. /\ stream' \in [pc : {"closed", "subscribed", "open", "ended"}, last : 0..MaxRevision]
        /\ stream'.last = stream.last /\ stream'.pc = "closed" /\ frames' = <<>>
    BY <1>1, KeptFacts, OutsideFacts DEF sse
  <2> QED  BY <1>1, <2>2, <2>3, OutsideInv DEF sse
<1> QED  BY <1>2, <1>3 DEF Poll

\* The browser has read a frame and is at least as far as it: what follows the
\* frame follows what the browser has.
LEMMA FrameReadInv ==
  ASSUME Inv, client.pc = "streaming", frames # <<>>, frames' = Tail(frames),
         UNCHANGED <<cache, backend, queue, lagged>>, stream' = stream,
         client' \in [pc : {"fetch", "request", "streaming", "waiting"},
                      last : 0..MaxRevision \cup {-1}, current : 0..MaxRevision \cup {-1},
                      shown : 0..MaxRevision \cup {-1}],
         client'.pc = "streaming", client'.last = client'.shown,
         client'.current = client'.shown, client'.shown <= Newest,
         Head(frames).rev <= client'.current
  PROVE  Inv'
<1>1. /\ frames \in Seq(Frames) /\ Len(frames) <= MaxFrames /\ MaxFrames \in Nat
      /\ client'.current \in Int
  BY KeptFacts, FeedFacts
<1>2. /\ Len(frames) \in Nat \ {0} /\ Head(frames) = frames[1]
      /\ frames' \in Seq(Frames) /\ Len(frames') = Len(frames) - 1
      /\ \A i \in 1..Len(frames') : i + 1 \in 1..Len(frames) /\ frames'[i] = frames[i + 1]
      /\ frames' = <<>> <=> Len(frames) = 1
      /\ frames' # <<>> => Last(frames') = Last(frames)
  BY <1>1, TailFacts
<1>3. frames[1].rev \in Int /\ frames[1].rev <= client'.current
  BY <1>2, IntFacts DEF Inv
<1>4. Len(frames') <= MaxFrames /\ \A i \in 1..Len(frames') : frames'[i].rev <= Newest
  BY <1>1, <1>2, KeptFacts
<1>5. \A i \in 1..Len(frames') :
        frames'[i].kind = "resync" => i = Len(frames') /\ stream'.pc = "ended"
  <2>1. ASSUME NEW i \in 1..Len(frames'), frames'[i].kind = "resync"
        PROVE  i = Len(frames') /\ stream'.pc = "ended"
    <3>1. i \in Int /\ i + 1 \in 1..Len(frames) /\ frames[i + 1].kind = "resync"
      BY <1>2, <2>1
    <3>2. i + 1 = Len(frames) /\ stream.pc = "ended"
      BY <3>1 DEF Inv, NoGap
    <3>3. Len(frames) \in Int /\ Len(frames') = Len(frames) - 1
      BY <1>2
    <3> QED  BY <3>1, <3>2, <3>3
  <2> QED  BY <2>1
<1>6. \A i \in 1..Len(frames') : frames'[i].kind = "player" =>
        IF i = 1 THEN frames'[i].rev <= client'.current + 1
        ELSE frames'[i].rev = frames'[i - 1].rev + 1
  <2>1. ASSUME NEW i \in 1..Len(frames'), frames'[i].kind = "player"
        PROVE  IF i = 1 THEN frames'[i].rev <= client'.current + 1
               ELSE frames'[i].rev = frames'[i - 1].rev + 1
    <3>1. /\ i \in Int /\ i + 1 \in 1..Len(frames) /\ i + 1 # 1 /\ (i + 1) - 1 = i
          /\ frames'[i] = frames[i + 1]
      BY <1>2
    <3>2. frames[i + 1].rev = frames[(i + 1) - 1].rev + 1
      BY <2>1, <3>1 DEF Inv, NoGap
    <3>3. frames'[i].rev = frames[i].rev + 1
      BY <3>1, <3>2
    <3>4. CASE i = 1
      BY <1>1, <1>3, <3>3, <3>4
    <3>5. CASE i # 1
      <4>1. i - 1 \in 1..Len(frames') /\ (i - 1) + 1 = i
        BY <1>2, <3>1, <3>5
      <4>2. frames'[i - 1] = frames[i]
        BY <1>2, <4>1
      <4> QED  BY <3>3, <3>5, <4>2
    <3> QED  BY <3>4, <3>5
  <2> QED  BY <2>1
<1>7. stream'.pc = "open" =>
        IF frames' = <<>> THEN stream'.last <= client'.current
        ELSE frames'[Len(frames')].rev = stream'.last
  <2>1. stream'.pc = "open" => frames[Len(frames)].rev = stream.last
    BY DEF Inv, NoGap
  <2> QED  BY <1>2, <1>3, <2>1 DEF Last
<1>8. NoGap'
  BY <1>5, <1>6, <1>7 DEF NoGap
<1>9. Together' /\ Informed'
  BY DEF Inv, Together, Informed, Receiving, Fetched, cache, backend
<1>10. /\ following' \in BOOLEAN /\ lagged' \in BOOLEAN /\ stream'.last <= Newest
       /\ stream' \in [pc : {"closed", "subscribed", "open", "ended"}, last : 0..MaxRevision]
       /\ queue' \in Seq(0..MaxRevision) /\ Len(queue') <= Capacity
       /\ \A i \in 1..Len(queue') : \E j \in 1..Len(queue) : queue'[i] = queue[j]
  BY KeptFacts DEF backend
<1>11. UNCHANGED <<cache, link, events, drops, task>>
  BY DEF backend
<1> QED  BY <1>2, <1>4, <1>8, <1>9, <1>10, <1>11, PageInv

\* Read
LEMMA ReadInv ==
  ASSUME Inv, Read
  PROVE  Inv'
<1> DEFINE f == Head(frames)
<1>1. client.pc = "streaming" /\ frames # <<>> /\ UNCHANGED <<cache, backend, queue, lagged>>
  BY DEF Read
<1>2. f \in Frames /\ f.rev \in 0..MaxRevision /\ f.rev \in Int /\ f.rev <= Newest
  <2>1. frames \in Seq(Frames)
    BY KeptFacts
  <2>2. f = frames[1] /\ 1 \in 1..Len(frames)
    BY <1>1, <2>1, TailFacts
  <2> QED  BY <2>2, TypeFacts, IntFacts, KeptFacts DEF Inv
<1>3. /\ client.last = client.shown /\ client.current = client.shown
      /\ client.current \in Int
  BY IntFacts DEF Inv, Together
<1> HIDE DEF f
<1>4. CASE f.rev <= client.current /\ frames' = Tail(frames) /\ stream' = stream
           /\ client' = client
  <2>1. Head(frames).rev <= client.current
    BY <1>4 DEF f
  <2> QED  BY <1>1, <1>3, <1>4, <2>1, KeptFacts, FrameReadInv
<1>5. CASE /\ frames' = Tail(frames) /\ stream' = stream
           /\ client' = [client EXCEPT !.last = f.rev, !.current = f.rev, !.shown = f.rev]
  <2>1. /\ client' \in [pc : {"fetch", "request", "streaming", "waiting"},
                        last : 0..MaxRevision \cup {-1}, current : 0..MaxRevision \cup {-1},
                        shown : 0..MaxRevision \cup {-1}]
        /\ client'.pc = "streaming" /\ client'.last = f.rev /\ client'.current = f.rev
        /\ client'.shown = f.rev
    BY <1>1, <1>2, <1>5, KeptFacts
  <2>2. client'.shown <= Newest /\ Head(frames).rev <= client'.current
    BY <1>2, <2>1 DEF f
  <2> QED  BY <1>1, <1>5, <2>1, <2>2, FrameReadInv
<1>6. CASE GiveUp
  BY <1>1, <1>6, GoOnInv DEF GiveUp
<1> QED  BY <1>4, <1>5, <1>6 DEF Read, f, Stale

-----------------------------------------------------------------------------
(* The theorems.                                                           *)

\* Nothing is stored, and nobody looks, at the start.
LEMMA InitInv ==
  ASSUME Init
  PROVE  Inv
<1>1. /\ body = None /\ watermark = -1 /\ link = TRUE /\ events = <<>> /\ drops = 0
      /\ task = [pc |-> "listening", rev |-> 0] /\ following = FALSE
      /\ queue = <<>> /\ lagged = FALSE
      /\ stream = [pc |-> "closed", last |-> 0] /\ frames = <<>>
      /\ client = [pc |-> "fetch", last |-> -1, current |-> -1, shown |-> -1]
  BY FeedFacts DEF Init, Register!Init, Register!Never
<1>2. 0 \in 0..MaxRevision /\ 0 \in 0..MaxDrops /\ {0} \subseteq 0..MaxRevision
  BY FeedFacts
<1>3. /\ task \in [pc : {"listening", "fetching", "publishing", "sleeping", "recovering",
                         "republishing"}, rev : 0..MaxRevision]
      /\ stream \in [pc : {"closed", "subscribed", "open", "ended"}, last : 0..MaxRevision]
      /\ client \in [pc : {"fetch", "request", "streaming", "waiting"},
                     last : 0..MaxRevision \cup {-1}, current : 0..MaxRevision \cup {-1},
                     shown : 0..MaxRevision \cup {-1}]
  BY <1>1, <1>2
<1>4. /\ events \in Seq(0..MaxRevision) /\ Len(events) <= MaxEvents
      /\ queue \in Seq(0..MaxRevision) /\ Len(queue) <= Capacity
      /\ frames \in Seq(Frames) /\ Len(frames) <= MaxFrames
  BY <1>1, FeedFacts, EmptySeq
<1>5. Types
  BY <1>1, <1>2, <1>3, <1>4 DEF Types
<1>6. NothingInvented
  BY <1>1, EmptySeq DEF NothingInvented, Newest, Fetched
<1>7. Together /\ NoGap /\ TaskAhead /\ Informed
  BY <1>1, EmptySeq DEF Together, NoGap, TaskAhead, Informed, Fetched, Receiving
<1> QED  BY <1>5, <1>6, <1>7 DEF Inv

\* Every step keeps the invariant.
LEMMA NextInv ==
  ASSUME Inv, [Next]_vars
  PROVE  Inv'
<1>1. CASE Store \/ Expire \/ LinkBreaks
  BY <1>1, StoreInv, ExpireInv, LinkBreaksInv
<1>2. CASE Task
  BY <1>2, HearInv, SleepInv, FetchInv, PublishInv, ResubscribeInv DEF Task
<1>3. CASE FetchFails
  BY <1>3, SleepInv
<1>4. CASE Serve \/ StreamEnds
  BY <1>4, SubscribeInv, OpenInv, SendInv, StreamEndsInv DEF Serve
<1>5. CASE Browse \/ PollFails \/ RequestFails
  BY <1>5, PollInv, ReadInv, BrowserStepInv DEF Browse
<1>6. CASE UNCHANGED vars
  BY <1>6 DEF vars, Inv, Types, NothingInvented, Newest, Together, NoGap, TaskAhead, Informed,
              Fetched, Receiving
<1> QED  BY <1>1, <1>2, <1>3, <1>4, <1>5, <1>6 DEF Next

\* The invariant holds.
THEOREM Invariant == Spec => []Inv
<1>1. Init => Inv
  BY InitInv
<1>2. Inv /\ [Next]_vars => Inv'
  BY NextInv
<1> QED  BY <1>1, <1>2, PTL DEF Spec

\* A followed stream tells the browser of everything: of the snapshot in the
\* cache in the end, and of every gap on the way.
THEOREM FeedIsToldEverything == Spec => []FeedIsComplete
<1>1. Inv => FeedIsComplete
  <2> SUFFICES ASSUME Inv
               PROVE  FeedIsComplete
    OBVIOUS
  <2>1. TypeOK
    BY FeedFacts DEF Inv, Types, TypeOK, Register!TypeOK, Register!Never
  <2>2. SettledViewIsCurrent
    <3> SUFFICES ASSUME Settled, body # None
                 PROVE  client.shown = body.rev
      BY DEF SettledViewIsCurrent
    <3>1. stream.last >= watermark /\ stream.last <= client.current
      BY DEF Settled, Inv, Informed, NoGap, Fetched
    <3>2. body.rev = watermark /\ client.current = client.shown /\ client.shown <= Newest
      BY DEF Inv, NothingInvented, Together
    <3>3. Newest = watermark
      BY <3>2, TypeFacts DEF Inv, Newest
    <3> QED  BY <3>1, <3>2, <3>3, IntFacts DEF Inv
  <2>3. GapsAreAnnounced
    <3> SUFFICES ASSUME frames # <<>>, Head(frames).kind = "player"
                 PROVE  Head(frames).rev <= client.current + 1
      BY DEF GapsAreAnnounced
    <3>1. Head(frames) = frames[1] /\ 1 \in 1..Len(frames)
      BY KeptFacts, TailFacts
    <3> QED  BY <3>1 DEF Inv, NoGap
  <2> QED  BY <2>1, <2>2, <2>3 DEF FeedIsComplete
<1> QED  BY <1>1, Invariant, PTL

\* The page implements SnapshotView: it shows revisions that were stored, and never
\* goes back to an older one (maintainPlayerEventStream, interpretPlayerSseFrame).
THEOREM FeedImplementsView == Spec => ImplementsView
<1> USE DEF View!Never, View!Newest, View!Init, View!Next, View!Store, View!Show, View!view
<1>1. Init => View!Init
  BY FeedFacts DEF Init, Register!Init, Register!Never
<1>2. ASSUME Inv, [Next]_vars
      PROVE  [View!Next]_View!view
  <2>1. CASE Store
    <3>1. watermark' > watermark
      BY <2>1 DEF Store, Register!Put
    <3>2. client' = client
      BY <2>1 DEF Store
    <3> QED  BY <3>1, <3>2
  <2>2. CASE Poll
    <3>1. watermark' = watermark /\ client.last = client.shown
      BY <1>2, <2>2 DEF Poll, cache, Inv, Together
    <3>2. CASE Current < client.last
      BY <1>2, <2>2, <3>1, <3>2, KeptFacts DEF Poll
    <3>3. CASE ~(Current < client.last)
      <4>1. client'.shown = Current
        BY <2>2, <3>3 DEF Poll
      <4>2. Current <= Newest /\ Current \in Int
        BY <1>2, TypeFacts DEF Inv, Types, NothingInvented, Current, Newest
      <4> QED  BY <1>2, <3>1, <3>3, <4>1, <4>2, IntFacts DEF Inv, Newest
    <3> QED  BY <3>2, <3>3
  <2>3. CASE Read
    <3>1. watermark' = watermark /\ client.current = client.shown
      BY <1>2, <2>3 DEF Read, cache, Inv, Together
    <3>2. CASE client'.shown = client.shown
      BY <3>1, <3>2
    <3>3. CASE client'.shown # client.shown
      <4>1. client'.shown = Head(frames).rev /\ ~Stale(Head(frames).rev) /\ frames # <<>>
        BY <1>2, <2>3, <3>3, KeptFacts DEF Read, GiveUp
      <4>2. Head(frames) = frames[1] /\ 1 \in 1..Len(frames)
        BY <1>2, <4>1, KeptFacts, TailFacts
      <4>3. Head(frames).rev <= Newest /\ Head(frames).rev \in Int
        BY <1>2, <4>2, KeptFacts, IntFacts DEF Inv
      <4> QED  BY <1>2, <3>1, <4>1, <4>3, IntFacts DEF Inv, Stale, Newest
    <3> QED  BY <3>2, <3>3
  <2>4. ASSUME UNCHANGED cache, client'.shown = client.shown
        PROVE  [View!Next]_View!view
    BY <2>4 DEF cache
  <2>5. CASE Expire \/ LinkBreaks \/ Task \/ FetchFails \/ Serve \/ StreamEnds
    <3>1. watermark' = watermark
      BY <2>5 DEF Expire, Register!Expire, LinkBreaks, FetchFails, StreamEnds, Task, Hear, HearEnd,
         FetchAnnounced, PublishFetched, Resubscribe, FetchCurrent, Serve, Subscribe, Open,
         SendNext, cache
    <3>2. client'.shown = client.shown
      BY <1>2, <2>5, KeptFacts DEF Expire, LinkBreaks, FetchFails, StreamEnds, Task, Hear, HearEnd,
         FetchAnnounced, PublishFetched, Resubscribe, FetchCurrent, Serve, Subscribe, Open,
         SendNext
    <3> QED  BY <3>1, <3>2
  <2>6. CASE Retry \/ ReadEnd \/ PollFails \/ RequestFails
    BY <1>2, <2>4, <2>6, KeptFacts DEF Retry, ReadEnd, PollFails, RequestFails, GiveUp
  <2>7. CASE UNCHANGED vars
    BY <2>7 DEF vars
  <2> QED  BY <1>2, <2>1, <2>2, <2>3, <2>5, <2>6, <2>7 DEF Next, Browse
<1> QED  BY <1>1, <1>2, Invariant, PTL DEF Spec, ImplementsView, View!Spec

=============================================================================
