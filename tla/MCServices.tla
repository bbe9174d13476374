------------------------------ MODULE MCServices -------------------------------
(***************************************************************************)
(* Model checking of the services around the player: the life of the bot's *)
(* process, the sessions of the dashboard, the development backend,        *)
(* Discord's interactions, the resolution of requests, the catalogues, the *)
(* search of media sites and the dashboard page.  They share no state, so  *)
(* that no interleaving of one with another says anything new: `part'      *)
(* chooses in the initial state which one runs, and the others stay as     *)
(* they start.                                                             *)
(***************************************************************************)
EXTENDS BotProcess

CONSTANTS
  Users, Nobody, Requests, Callbacks, MaxLogins, MaxSessions,            \* Sessions
  Capacity, StateTtl, IdleTtl, AbsoluteTtl, CheckEvery, Lifetime, GlobalLimit, UserLimit,
  Actors, MaxKeys, NoTrack, ActorLimit, GuildLimit, MaxWindows,          \* DevBackend
  Channels, NoChannel, Plays, Commands, Clicks, MaxAttempts, MaxRevision, MaxVoice, \* Interactions
  m1, m2, MaxEntries, Concurrency, Admission, Batches,                    \* Resolve
  r1, r2, CollectionLimit, MaxItems, MaxTokens,                          \* Catalog
  MaxListed,                                                             \* SiteSearch
  g1, g2, NoGuild, Nothing, MaxLate                                      \* Page

VARIABLES
  part,
  states, callbacks, sessions, pointer, requests, admission, shutdown,
  snapshot, receipts, actors, guild, windows, event, tracks,
  facts, player, watermark, panel, voice, moves, interactions, media,
  call, items, completed, leased, permits, batches,
  clients, work, cached, issuing, issued, accepted,
  search, pc, provider, listed, untried, result,
  page, boot, stream, catalog, command, stragglers

sessionVars == <<states, callbacks, sessions, pointer, requests, admission, shutdown>>
devVars     == <<snapshot, receipts, actors, guild, windows, event, tracks>>
discordVars == <<facts, player, watermark, panel, voice, moves, interactions, media>>
resolveVars == <<call, items, completed, leased, permits, batches>>
catalogVars == <<clients, work, cached, issuing, issued, accepted>>
searchVars  == <<search, pc, provider, listed, untried, result>>
pageVars    == <<page, boot, stream, catalog, command, stragglers>>

\* A candidate of each kind that the ranking tells apart.
SomeListings ==
  {[title |-> "same", conflict |-> FALSE, artists |-> 1, duration |-> "unknown", visual |-> FALSE],
   [title |-> "same", conflict |-> FALSE, artists |-> 2, duration |-> "close", visual |-> TRUE],
   [title |-> "contains", conflict |-> FALSE, artists |-> 0, duration |-> "tolerated", visual |-> FALSE],
   [title |-> "same", conflict |-> TRUE, artists |-> 1, duration |-> "close", visual |-> FALSE],
   [title |-> "overlaps", conflict |-> FALSE, artists |-> 2, duration |-> "close", visual |-> FALSE]}

\* One resolution may be asked for anything, the other competes for the token.
SomeLinks(r) ==
  IF r = r1 THEN {"spotify", "apple"} \X {"track", "album", "playlist"}
  ELSE {<<"spotify", "track">>}

\* One call may find a collection of any length, the other contends with it.
SomeLengths(c) == IF c = m1 THEN 1 .. MaxEntries ELSE {2}

Auth    == INSTANCE Sessions
Dev     == INSTANCE DevBackend
\* A /play meets either clicks on the panel, or a /stop and a /leave.
Discord == INSTANCE Interactions WITH tasks <- interactions
Resolver == INSTANCE Resolve WITH Calls <- {m1, m2}, Lengths <- SomeLengths, admission <- permits
Catalogue == INSTANCE Catalog WITH Resolutions <- {r1, r2}, Links <- SomeLinks
Site    == INSTANCE SiteSearch WITH Listings <- SomeListings
Web     == INSTANCE Page WITH Listed <- <<g1, g2>>, late <- stragglers

\* The bounds and limits are numbers, and nobody is no user.
ASSUME SessionAssumption ==
  /\ {MaxLogins, MaxSessions, StateTtl, IdleTtl, AbsoluteTtl, CheckEvery, Lifetime,
      GlobalLimit, UserLimit} \subseteq Nat
  /\ Nobody \notin Users /\ IsFiniteSet(Requests)

\* Actors are counted, and what is not a track is none.
ASSUME BackendAssumption ==
  /\ {MaxKeys, ActorLimit, GuildLimit} \subseteq Nat
  /\ IsFiniteSet(Actors) /\ NoTrack \notin 1..MaxKeys

\* A collection may have two entries, and something of it may be under way.
ASSUME ResolveAssumption ==
  /\ {MaxEntries, Concurrency, Admission, Batches} \subseteq Nat
  /\ MaxEntries >= 2 /\ Concurrency >= 1

\* Collections and tokens are counted.
ASSUME CatalogAssumption == {CollectionLimit, MaxItems, MaxTokens} \subseteq Nat

\* A search lists as many as it may.
ASSUME SearchAssumption == MaxListed \in Nat

\* Each interaction is of one kind.
ASSUME InteractionAssumption ==
  /\ MaxRevision \in Nat
  /\ Plays \cap Commands = {} /\ Plays \cap Clicks = {} /\ Commands \cap Clicks = {}

\* An empty selection is no guild, and what there is not is nothing of the page's.
ASSUME PageAssumption ==
  /\ MaxLate \in Nat /\ NoGuild \notin {g1, g2}
  /\ Nothing \notin Web!StreamTask \cup Web!CatalogTask \cup Web!CommandTask
                   \cup {<<p>> : p \in SUBSET {g1, g2}} \cup [guild : {g1, g2}, by : Web!Sources]

allVars == <<vars, part, sessionVars, devVars, discordVars, resolveVars,
             catalogVars, searchVars, pageVars>>

On(p) == part = p

MCInit ==
  /\ part \in {"process", "sessions", "dev", "discord", "leaving", "resolve",
               "catalog", "search", "page"}
  /\ Init /\ Auth!Init /\ Dev!Init /\ Discord!Init /\ Resolver!Init
  /\ Catalogue!Init /\ Site!Init /\ Web!Init
  /\ On("catalog") \/ \A p \in DOMAIN clients : clients[p] = "none"
  /\ On("search") \/ ~(search.artists \/ search.duration)

MCNext ==
  /\ UNCHANGED part
  /\ \/ /\ On("process") /\ Next
        /\ UNCHANGED <<sessionVars, devVars, discordVars, resolveVars,
                       catalogVars, searchVars, pageVars>>
     \/ /\ On("sessions") /\ Auth!Next
        /\ UNCHANGED <<vars, devVars, discordVars, resolveVars,
                       catalogVars, searchVars, pageVars>>
     \/ /\ On("dev") /\ Dev!Next
        /\ UNCHANGED <<vars, sessionVars, discordVars, resolveVars,
                       catalogVars, searchVars, pageVars>>
     \/ /\ (On("discord") \/ On("leaving")) /\ Discord!Next
        /\ \A t \in IF On("discord") THEN Commands ELSE Clicks : interactions'[t] = interactions[t]
        /\ UNCHANGED <<vars, sessionVars, devVars, resolveVars,
                       catalogVars, searchVars, pageVars>>
     \/ /\ On("resolve") /\ Resolver!Next
        /\ UNCHANGED <<vars, sessionVars, devVars, discordVars,
                       catalogVars, searchVars, pageVars>>
     \/ /\ On("catalog") /\ Catalogue!Next
        /\ UNCHANGED <<vars, sessionVars, devVars, discordVars,
                       resolveVars, searchVars, pageVars>>
     \/ /\ On("search") /\ Site!Next
        /\ UNCHANGED <<vars, sessionVars, devVars, discordVars,
                       resolveVars, catalogVars, pageVars>>
     \/ /\ On("page") /\ Web!Next
        /\ UNCHANGED <<vars, sessionVars, devVars, discordVars,
                       resolveVars, catalogVars, searchVars>>

MCSpec == MCInit /\ [][MCNext]_allVars

\* The API lets in whom it should: a session that was revoked is refused, an
\* OAuth state works once, and the streams admitted are those whose leases are
\* held (Sessions); the development backend's budget and snapshots are exact.
ApiIsSound ==
  /\ On("sessions") => /\ Auth!TypeOK /\ Auth!RevokedIsRefused
                       /\ Auth!StateUsedOnce /\ Auth!LeasesCounted
  /\ On("dev") => Dev!TypeOK /\ Dev!SnapshotIsSound /\ Dev!AdmissionIsExact

\* No player is forgotten by the process, and a clean exit says the truth
\* (PlayerRegistry, production::run).
ShutdownIsHonest == On("process") => TypeOK /\ PlayersAccountedFor /\ CleanExitIsTrue

\* Whoever asked for music gets all of it: a batch holds each of its tracks once
\* and in order, and what /play was told is queued is in the queue
\* (CompletedTracks, finish_enqueue).
RequestsAreKept ==
  /\ On("resolve") => Resolver!TypeOK /\ Resolver!BatchIsComplete
  /\ On("discord") \/ On("leaving") => Discord!TypeOK /\ Discord!QueuedIsKept

\* Users change what they mean to: a click acts on the player its panel shows
\* (map_interaction), and a logout ends no session but its own (DESTROY_SESSION).
UsersActAsMeant ==
  /\ [][\A t \in Clicks : Discord!ActsOnPanel(t)]_allVars
  /\ Auth!LogoutEndsOwnSession

\* What is returned is what was found: the items of a catalogue's collection
\* (CatalogResolver), no refusal of a token taken for one of the credentials
\* (TokenManager), and the best listing that the rules of the match accept
\* (YtDlpClient).
FindingsAreFaithful ==
  /\ On("catalog") => /\ Catalogue!TypeOK /\ Catalogue!CollectionIsHonest
                      /\ Catalogue!RefusalIsConfirmed
  /\ On("search") => Site!TypeOK /\ Site!MatchIsFaithful /\ Site!BestFirst

\* The stream the page shows is that of the guild selected (useLiveDashboard).
StreamShowsSelected == On("page") => Web!TypeOK /\ Web!StreamShowsSelected

\* Nothing but a bootstrap leaves a command of another guild pending, and nothing
\* but a second click on the selected guild silences its stream (useLiveDashboard,
\* usePlayerCommand).
PageSlipsAreKnown == Web!OnlyBootstrapStrandsCommand /\ Web!OnlyReselectionMutes

================================================================================
