---------------------------- MODULE SnapshotFeed ----------------------------
(***************************************************************************)
(* From the snapshot cache to a dashboard.  The cache is the register of   *)
(* SnapshotRegister; each new revision also wakes the API backend over     *)
(* Pub/Sub.  The backend's task reads the cache and fans the snapshot out  *)
(* to the SSE streams; a stream sends an initial snapshot, then one frame  *)
(* per revision, and asks for a resync when it cannot.  The browser polls  *)
(* once, follows a stream, and starts over when the stream ends.           *)
(*                                                                         *)
(* One guild and one browser.  Wake-ups are never authoritative: they may  *)
(* be lost with the subscription, and the snapshot read for one may be     *)
(* newer, or gone.                                                         *)
(***************************************************************************)
EXTENDS Integers, Sequences

CONSTANTS Epochs, MaxRevision, None,
          Capacity,  \* snapshots a stream's receiver holds back (event_capacity)
          MaxEvents, \* bound on the wake-ups under way
          MaxFrames, \* bound on the frames under way: the socket's back-pressure
          MaxDrops   \* bound on lost subscriptions

VARIABLES
  body, watermark, \* the cache
  link,    \* the backend's Pub/Sub connection is open
  events,  \* revisions announced on it
  drops,
  task,    \* the backend's event task: pc, and the revision it deals with
  following, \* the guild is among subscribed_guilds
  queue,   \* the stream's receiver: snapshots not yet taken
  lagged,  \* the receiver has lost snapshots
  stream,  \* the SSE response: pc, last revision sent
  frames,  \* frames under way to the browser
  client   \* maintainPlayerEventStream: pc, lastRevision, currentRevision, shown

cache   == <<body, watermark>>
backend == <<link, events, drops, task, following>>
sse     == <<queue, lagged, stream, frames>>
vars    == <<body, watermark, link, events, drops, task, following, queue, lagged,
             stream, frames, client>>

Register  == INSTANCE SnapshotRegister WITH body <- body, watermark <- watermark
Never     == Register!Never
Revisions == 0..MaxRevision
Known     == Revisions \cup {Never}
Frames    == [kind : {"snapshot", "player", "resync"}, rev : Revisions]

ASSUME FeedAssumption ==
  /\ {MaxRevision, MaxEvents, MaxDrops} \subseteq Nat
  /\ {Capacity, MaxFrames} \subseteq Nat \ {0}
  /\ None \notin Register!Snapshots

TypeOK ==
  /\ Register!TypeOK
  /\ link \in BOOLEAN /\ drops \in 0..MaxDrops
  /\ events \in Seq(Revisions) /\ Len(events) <= MaxEvents
  /\ task \in [pc : {"listening", "fetching", "publishing", "sleeping", "recovering",
                     "republishing"}, rev : Revisions]
  /\ following \in BOOLEAN
  /\ queue \in Seq(Revisions) /\ Len(queue) <= Capacity
  /\ lagged \in BOOLEAN
  /\ stream \in [pc : {"closed", "subscribed", "open", "ended"}, last : Revisions]
  /\ frames \in Seq(Frames) /\ Len(frames) <= MaxFrames
  /\ client \in [pc : {"fetch", "request", "streaming", "waiting"},
                 last : Known, current : Known, shown : Known]

Prefixes(s) == {SubSeq(s, 1, n) : n \in 0..Len(s)}

-----------------------------------------------------------------------------
(* The cache and the Pub/Sub connection.                                   *)

\* A worker stores a newer snapshot; the same script publishes the event.
Store ==
  /\ \E s \in Register!Snapshots : s.rev > watermark /\ Register!Put(s)
  /\ Len(events) < MaxEvents
  /\ events' = IF link THEN Append(events, watermark') ELSE events
  /\ UNCHANGED <<link, drops, task, following, sse, client>>

Expire == /\ body # None
          /\ Register!Expire
          /\ UNCHANGED <<backend, sse, client>>

\* The connection breaks; some announced events may still be read from it.
LinkBreaks ==
  /\ link /\ drops < MaxDrops
  /\ link' = FALSE /\ drops' = drops + 1
  /\ events' \in Prefixes(events)
  /\ UNCHANGED <<cache, task, following, sse, client>>

-----------------------------------------------------------------------------
(* The backend's event task.                                               *)

\* A stream's receiver exists from the moment the handler subscribes.
Receiving == stream.pc \in {"subscribed", "open"}

\* EventHub::publish: a full receiver loses its oldest snapshot.
Publish(r) ==
  IF ~Receiving THEN UNCHANGED <<queue, lagged>>
  ELSE IF Len(queue) < Capacity
  THEN queue' = Append(queue, r) /\ UNCHANGED lagged
  ELSE queue' = Append(Tail(queue), r) /\ lagged' = TRUE

Hear == /\ task.pc = "listening" /\ events # <<>>
        /\ task' = [pc |-> "fetching", rev |-> Head(events)]
        /\ events' = Tail(events)
        /\ UNCHANGED <<cache, link, drops, following, sse, client>>

HearEnd == /\ task.pc = "listening" /\ events = <<>> /\ ~link
           /\ task' = [task EXCEPT !.pc = "sleeping"]
           /\ UNCHANGED <<cache, link, drops, events, following, sse, client>>

\* The snapshot may be newer than the event that announced it, or gone.
FetchAnnounced ==
  /\ task.pc = "fetching"
  /\ task' = IF body # None /\ body.rev >= task.rev
             THEN [pc |-> "publishing", rev |-> body.rev]
             ELSE [task EXCEPT !.pc = "listening"]
  /\ UNCHANGED <<cache, link, drops, events, following, sse, client>>

\* The task reads nothing more from a subscription it gives up.
FetchFails ==
  /\ task.pc \in {"fetching", "recovering"} /\ drops < MaxDrops
  /\ drops' = drops + 1
  /\ task' = [task EXCEPT !.pc = "sleeping"]
  /\ UNCHANGED <<cache, link, events, following, sse, client>>

PublishFetched ==
  /\ task.pc \in {"publishing", "republishing"}
  /\ Publish(task.rev)
  /\ task' = [task EXCEPT !.pc = "listening"]
  /\ UNCHANGED <<cache, link, drops, events, following, stream, frames, client>>

ResubscribeOnly ==
  /\ task.pc = "sleeping"
  /\ link' = TRUE /\ events' = <<>>
  /\ task' = [task EXCEPT !.pc = "listening"]
  /\ UNCHANGED <<cache, drops, following, sse, client>>

\* After the delay: subscribe first, then see to the guilds somebody follows.
Resubscribe ==
  /\ task.pc = "sleeping"
  /\ link' = TRUE /\ events' = <<>>
  /\ task' = [task EXCEPT !.pc = IF following THEN "recovering" ELSE "listening"]
  /\ UNCHANGED <<cache, drops, following, sse, client>>

FetchCurrent ==
  /\ task.pc = "recovering"
  /\ task' = IF body # None THEN [pc |-> "republishing", rev |-> body.rev]
             ELSE [task EXCEPT !.pc = "listening"]
  /\ UNCHANGED <<cache, link, drops, events, following, sse, client>>

-----------------------------------------------------------------------------
(* The SSE response.                                                       *)

\* What GET player answers: without a body, the initial snapshot.
Current == IF body = None THEN 0 ELSE body.rev

SubscribeUnfollowed ==
  /\ client.pc = "request" /\ stream.pc = "closed"
  /\ stream' = [stream EXCEPT !.pc = "subscribed"]
  /\ queue' = <<>> /\ lagged' = FALSE
  /\ UNCHANGED <<cache, backend, frames, client>>

\* The handler subscribes before it reads the snapshot.
Subscribe ==
  /\ client.pc = "request" /\ stream.pc = "closed"
  /\ stream' = [stream EXCEPT !.pc = "subscribed"]
  /\ following' = TRUE /\ queue' = <<>> /\ lagged' = FALSE
  /\ UNCHANGED <<cache, link, events, drops, task, frames, client>>

Open ==
  /\ stream.pc = "subscribed"
  /\ stream' = [pc |-> "open", last |-> Current]
  /\ frames' = <<[kind |-> "snapshot", rev |-> Current]>>
  /\ client' = [client EXCEPT !.pc = "streaming"]
  /\ UNCHANGED <<cache, backend, queue, lagged>>

\* checked_next(last) = Some(revision)
InOrder(r) == r = stream.last + 1

\* The stream takes what its receiver has; a loss or a gap ends it.
SendNext ==
  /\ stream.pc = "open" /\ Len(frames) < MaxFrames
  /\ UNCHANGED <<cache, backend, client>>
  /\ \/ /\ lagged
        /\ frames' = Append(frames, [kind |-> "resync", rev |-> stream.last])
        /\ stream' = [stream EXCEPT !.pc = "ended"]
        /\ UNCHANGED <<queue, lagged>>
     \/ /\ ~lagged /\ queue # <<>> /\ queue' = Tail(queue) /\ UNCHANGED lagged
        /\ \/ /\ Head(queue) <= stream.last
              /\ UNCHANGED <<stream, frames>>
           \/ /\ Head(queue) > stream.last /\ ~InOrder(Head(queue))
              /\ frames' = Append(frames, [kind |-> "resync", rev |-> stream.last])
              /\ stream' = [stream EXCEPT !.pc = "ended"]
           \/ /\ Head(queue) > stream.last /\ InOrder(Head(queue))
              /\ frames' = Append(frames, [kind |-> "player", rev |-> Head(queue)])
              /\ stream' = [stream EXCEPT !.last = Head(queue)]

\* Authorization runs out, the API shuts down, the connection breaks.
StreamEnds ==
  /\ stream.pc = "open"
  /\ stream' = [stream EXCEPT !.pc = "ended"]
  /\ frames' \in Prefixes(frames)
  /\ UNCHANGED <<cache, backend, queue, lagged, client>>

-----------------------------------------------------------------------------
(* The browser.                                                            *)

\* The end of an attempt: the response is dropped, a delay follows.
GiveUp == /\ client' = [client EXCEPT !.pc = "waiting"]
          /\ stream' = [stream EXCEPT !.pc = "closed"]
          /\ frames' = <<>>

\* A revision that moved backwards is an error, as is a failed request.
Poll ==
  /\ client.pc = "fetch"
  /\ client' = IF Current < client.last
               THEN [client EXCEPT !.pc = "waiting"]
               ELSE [pc |-> "request", last |-> Current, current |-> Current,
                     shown |-> Current]
  /\ UNCHANGED <<cache, backend, sse>>

PollFails ==
  /\ client.pc = "fetch"
  /\ client' = [client EXCEPT !.pc = "waiting"]
  /\ UNCHANGED <<cache, backend, sse>>

RequestFails ==
  /\ client.pc = "request"
  /\ GiveUp
  /\ UNCHANGED <<cache, backend, queue, lagged>>

Retry ==
  /\ client.pc = "waiting"
  /\ client' = [client EXCEPT !.pc = "fetch"]
  /\ UNCHANGED <<cache, backend, sse>>

StaleIfEqual(r) == r = client.current

\* interpretPlayerSseFrame ignores what the browser has seen.
Stale(r) == r <= client.current

Read ==
  LET f == Head(frames)
  IN /\ client.pc = "streaming" /\ frames # <<>>
     /\ UNCHANGED <<cache, backend, queue, lagged>>
     /\ \/ /\ f.kind # "resync" /\ Stale(f.rev)
           /\ frames' = Tail(frames) /\ UNCHANGED <<stream, client>>
        \/ /\ f.kind # "resync" /\ ~Stale(f.rev)
           /\ f.kind = "player" => f.rev = client.current + 1
           /\ frames' = Tail(frames) /\ UNCHANGED stream
           /\ client' = [client EXCEPT !.last = f.rev, !.current = f.rev, !.shown = f.rev]
        \/ /\ \/ f.kind = "resync"
              \/ f.kind = "player" /\ ~Stale(f.rev) /\ f.rev # client.current + 1
           /\ GiveUp

ReadEnd ==
  /\ client.pc = "streaming" /\ frames = <<>> /\ stream.pc = "ended"
  /\ GiveUp
  /\ UNCHANGED <<cache, backend, queue, lagged>>

-----------------------------------------------------------------------------

Init ==
  /\ Register!Init
  /\ link = TRUE /\ events = <<>> /\ drops = 0
  /\ task = [pc |-> "listening", rev |-> 0]
  /\ following = FALSE
  /\ queue = <<>> /\ lagged = FALSE
  /\ stream = [pc |-> "closed", last |-> 0] /\ frames = <<>>
  /\ client = [pc |-> "fetch", last |-> Never, current |-> Never, shown |-> Never]

Task   == Hear \/ HearEnd \/ FetchAnnounced \/ PublishFetched \/ Resubscribe \/ FetchCurrent
Serve  == Subscribe \/ Open \/ SendNext
Browse == Poll \/ Retry \/ Read \/ ReadEnd

Next == \/ Store \/ Expire \/ LinkBreaks
        \/ Task \/ FetchFails
        \/ Serve \/ StreamEnds
        \/ Browse \/ PollFails \/ RequestFails

Spec == Init /\ [][Next]_vars

\* The backend's task, the handler and the browser are scheduled, and a browser
\* that keeps polling is answered every now and then.
FairSpec == /\ Spec /\ WF_vars(Task)
            /\ SF_vars(Subscribe) /\ SF_vars(Open) /\ WF_vars(SendNext)
            /\ SF_vars(Poll) /\ WF_vars(Retry) /\ WF_vars(Read) /\ WF_vars(ReadEnd)

-----------------------------------------------------------------------------
(* Properties.                                                             *)

View == INSTANCE SnapshotView WITH stored <- watermark, shown <- client.shown

\* The page shows revisions that were stored and never goes back to an older
\* one, whatever is lost, resent or expires between the cache and the page.
ImplementsView == View!Spec

\* Nothing is under way between the cache and the page.
Settled ==
  /\ link /\ events = <<>> /\ task.pc = "listening"
  /\ stream.pc = "open" /\ queue = <<>> /\ ~lagged
  /\ client.pc = "streaming" /\ frames = <<>>

\* When nothing is under way between the cache and a followed stream, the
\* browser shows the cached snapshot: a change that falls between subscribing
\* and reading, or while the subscription is down, is not missed for good.
SettledViewIsCurrent == Settled /\ body # None => client.shown = body.rev

\* The stream announces every gap itself: a player frame that is news to the
\* browser always continues what it has, so its own gap check never fires.
GapsAreAnnounced ==
  client.pc = "streaming" /\ frames # <<>> /\ Head(frames).kind = "player"
    => Head(frames).rev <= client.current + 1

\* A followed stream tells the browser of everything: in the end the cached
\* snapshot, and on the way every gap (player_events and the backend's task).
FeedIsComplete == TypeOK /\ SettledViewIsCurrent /\ GapsAreAnnounced

\* Once no newer revision is stored the browser shows the stored one, unless
\* its body expires: lost wake-ups are made up for without the stream having to
\* end.  (Stores are bounded, so this speaks of every stored revision.)
ViewCatchesUp == []<>(client.shown = watermark \/ body = None)

=============================================================================
