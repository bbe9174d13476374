-------------------------------- MODULE Catalog --------------------------------
(***************************************************************************)
(* Catalog links (pepeaudio-catalog): a Spotify or Apple Music link is     *)
(* resolved to the metadata of its tracks, page by page, never to audio.   *)
(* A provider is reached with an app's credentials, through its public     *)
(* pages, or not at all.  Spotify's credentials buy short-lived tokens     *)
(* that all resolutions share.                                             *)
(*                                                                         *)
(* A source is the number of its items; its k-th item is k.  Whether the   *)
(* metadata of an item is usable shows when it is converted.  A provider   *)
(* pages as it likes, announces the number of items or not, and may give a *)
(* next link where nothing follows; but for a lookup, which may return     *)
(* fewer items than there are, it hides none.                              *)
(***************************************************************************)
EXTENDS Integers, FiniteSets, Sequences, Sorting

CONSTANTS
  Resolutions, Nobody,
  Links(_),        \* the links a resolution is asked for: pairs of provider and kind
  CollectionLimit,  \* CatalogResolver::collection_limit
  MaxItems,         \* bound on the items of a source
  MaxTokens         \* bound on the tokens that Spotify issues

VARIABLES
  clients,   \* per provider the client CatalogResolverBuilder was given
  work,      \* per resolution, how far it is
  cached,    \* TokenManager::cached: a token, 0 for none or one about to expire
  issuing,   \* who holds its mutex across the token request
  issued,    \* the tokens issued so far
  accepted   \* the tokens Spotify's API accepts

vars   == <<clients, work, cached, issuing, issued, accepted>>
tokens == <<cached, issuing, issued, accepted>>

Providers == {"spotify", "apple"}
Kinds     == {"track", "album", "playlist"}
Unknown   == -1

Idle == [pc |-> "idle", method |-> "none", limit |-> 0, length |-> 0, total |-> Unknown,
         next |-> 0, seen |-> {}, token |-> 0, refused |-> {},
         returned |-> 0, tracks |-> <<>>, processed |-> 0, skipped |-> 0, truncated |-> FALSE,
         error |-> "none"]

TypeOK ==
  /\ clients \in [Providers -> {"none", "app", "public"}]
  /\ \A r \in Resolutions :
       /\ work[r].pc \in {"idle", "token", "issue", "get", "invalidate", "done", "failed"}
       /\ work[r].processed \in 0..CollectionLimit
       /\ work[r].skipped + Len(work[r].tracks) = work[r].processed
  /\ {cached, issued} \subseteq 0..MaxTokens /\ accepted \subseteq 1..issued
  /\ issuing \in Resolutions \cup {Nobody}

-----------------------------------------------------------------------------
\* Which client method answers for a reference; "none" is a refusal
\* (ProviderNotConfigured, SpotifyPlaylistAccessDenied, PublicMetadataUnsupported,
\* AppleMusicPlaylistRequiresCredentials).
Method(p, kind) ==
  IF \/ clients[p] = "none"
     \/ <<p, clients[p], kind>> \in {<<"spotify", "app", "playlist">>,
                                     <<"spotify", "public", "album">>,
                                     <<"apple", "public", "playlist">>}
  THEN "none"
  ELSE IF kind = "track"  THEN IF clients[p] = "public" THEN "page"
                               ELSE IF p = "spotify" THEN "song" ELSE "resource"
  ELSE IF p = "spotify"   THEN IF kind = "album" THEN "album" ELSE "embedded"
  ELSE IF clients[p] = "app" THEN "linked" ELSE "lookup"

\* The methods that go through TokenManager, and those that sign a DeveloperToken.
NeedsToken(r) == work[r].method \in {"song", "album"}
Signs(r)      == work[r].method \in {"resource", "linked"}

Fail(r, error) == work' = [work EXCEPT ![r] = [Idle EXCEPT !.pc = "failed", !.error = error]]

\* resolve_reference_with_limit.
Start(r) ==
  /\ work[r].pc = "idle"
  /\ \E link \in Links(r), limit \in 0..(CollectionLimit + 1) :
       LET method == Method(link[1], link[2])
       IN IF method = "none" \/ limit \notin 1..CollectionLimit
          THEN Fail(r, "unsupported")
          ELSE \E length \in (IF link[2] = "track" THEN {1} ELSE 0..MaxItems),
                  announced \in BOOLEAN :
                 work' = [work EXCEPT ![r] =
                   [Idle EXCEPT !.pc = IF method \in {"song", "album"} THEN "token" ELSE "get",
                                !.method = method, !.limit = limit, !.length = length,
                                !.total = IF announced THEN length ELSE Unknown]]
  /\ UNCHANGED <<clients, tokens>>

-----------------------------------------------------------------------------
(* Tokens.                                                                 *)

\* token: the cached one, or the mutex is kept while a new one is requested.
Token(r) ==
  /\ work[r].pc = "token" /\ issuing = Nobody
  /\ IF cached # 0
     THEN work' = [work EXCEPT ![r].pc = "get", ![r].token = cached] /\ UNCHANGED issuing
     ELSE work' = [work EXCEPT ![r].pc = "issue"] /\ issuing' = r
  /\ UNCHANGED <<clients, cached, issued, accepted>>

\* The token endpoint answers; a 400, 401 or 403 means that the app's credentials are
\* not valid, whatever token was refused before.
Issue(r) ==
  /\ work[r].pc = "issue"
  /\ issuing' = Nobody
  /\ \/ /\ issued < MaxTokens
        /\ issued' = issued + 1 /\ cached' = issued' /\ accepted' = accepted \cup {issued'}
        /\ work' = [work EXCEPT ![r].pc = "get", ![r].token = issued']
     \/ /\ \E error \in {"transport", "credentials"} : Fail(r, error)
        /\ UNCHANGED <<cached, issued, accepted>>
  /\ UNCHANGED clients

\* Returns without giving the token up.
InvalidateNothing(r) ==
  /\ work[r].pc = "invalidate" /\ issuing = Nobody
  /\ work' = [work EXCEPT ![r].pc = "token"]
  /\ UNCHANGED <<clients, tokens>>

\* get_json after a first 401: invalidate, then one more authorized_get.  Whatever is
\* cached is given up, also a token that another resolution has just been issued.
Invalidate(r) ==
  /\ work[r].pc = "invalidate" /\ issuing = Nobody
  /\ cached' = 0
  /\ work' = [work EXCEPT ![r].pc = "token"]
  /\ UNCHANGED <<clients, issuing, issued, accepted>>

\* The cached token comes within EARLY_REFRESH of its end.
Expire ==
  /\ issuing = Nobody /\ cached # 0 /\ cached' = 0
  /\ UNCHANGED <<clients, work, issuing, issued, accepted>>

\* Spotify stops accepting a token.
Revoke ==
  /\ \E t \in accepted : accepted' = accepted \ {t}
  /\ UNCHANGED <<clients, work, cached, issuing, issued>>

\* The API answers 401.
Refused(r) ==
  /\ work[r].pc = "get" /\ NeedsToken(r) /\ work[r].token \notin accepted
  /\ LET first == work[r].refused = {}
     IN work' = [work EXCEPT ![r].pc = IF first THEN "invalidate" ELSE "failed",
                             ![r].error = IF first THEN "none" ELSE "credentials",
                             ![r].refused = @ \cup {work[r].token}]
  /\ UNCHANGED <<clients, tokens>>

-----------------------------------------------------------------------------
(* Pages.  A page that is served holds the next items of the source.       *)

Served(r) == work[r].pc = "get" /\ (NeedsToken(r) => work[r].token \in accepted)

\* Converts the items from..upto; those whose metadata is unusable are skipped.
Converted(r, from, upto, good) ==
  [work[r] EXCEPT !.processed = @ + Cardinality(from..upto),
                  !.tracks = @ \o Sorted(good, <),
                  !.skipped = @ + Cardinality((from..upto) \ good)]

\* The next get_json has its own retry, with the token that is then cached.
Again(w, offset) ==
  [w EXCEPT !.pc = IF w.method = "album" THEN "token" ELSE "get", !.refused = {}, !.token = 0,
            !.next = offset]

Finished(w, truncated) ==
  [Idle EXCEPT !.pc = "done", !.method = w.method, !.limit = w.limit, !.length = w.length,
               !.returned = w.returned, !.tracks = w.tracks, !.processed = w.processed, !.skipped = w.skipped,
               !.truncated = truncated]

Announces(r, processed) == work[r].total > processed

\* resolve_track, of all clients: its metadata is there or the response is invalid.
Single(r) ==
  /\ Served(r) /\ work[r].method \in {"song", "page", "resource"}
  /\ work' = [work EXCEPT ![r] = Finished(Converted(r, 1, 1, {1}), FALSE)]
  /\ UNCHANGED <<clients, tokens>>

\* SpotifyCatalog::resolve_album: pages by offset, the first inside the album.
AlbumPage(r) ==
  /\ Served(r) /\ work[r].method = "album"
  /\ LET start == work[r].processed
         left  == work[r].length - start
     IN \E n \in 0..left, hadNext \in BOOLEAN :
          /\ n < left => hadNext
          /\ LET remaining == work[r].limit - start
                 upto      == start + (IF n < remaining THEN n ELSE remaining)
             IN \E good \in SUBSET ((start + 1)..upto) :
                  LET w == Converted(r, start + 1, upto, good)
                  IN IF upto >= work[r].limit \/ ~hadNext
                     THEN work' = [work EXCEPT ![r] =
                            Finished(w, \/ n > remaining
                                        \/ upto >= work[r].limit /\ hadNext
                                        \/ Announces(r, upto))]
                     ELSE IF n = 0 THEN Fail(r, "invalid")
                     ELSE work' = [work EXCEPT ![r] = Again(w, upto)]
  /\ UNCHANGED <<clients, tokens>>

\* The set of URLs already requested.
NewLink(w) == w.next \notin w.seen

\* AppleMusicCatalog::resolve_track_pages: pages by links, no link twice.
LinkedPage(r) ==
  /\ Served(r) /\ work[r].method = "linked"
  /\ LET start == work[r].next
     IN IF ~NewLink(work[r]) THEN Fail(r, "invalid")
        ELSE \E n \in 0..(work[r].length - start) :
             \E next \in {Unknown, start + n} \cup work[r].seen :
          /\ n < work[r].length - start => next # Unknown
          /\ LET remaining == work[r].limit - work[r].processed
                 upto      == start + (IF n < remaining THEN n ELSE remaining)
             IN \E good \in SUBSET ((start + 1)..upto) :
                  LET w == [Converted(r, start + 1, upto, good) EXCEPT !.seen = @ \cup {start}]
                  IN IF n = 0 /\ next # Unknown THEN Fail(r, "invalid")
                     ELSE IF w.processed >= w.limit \/ next = Unknown
                     THEN work' = [work EXCEPT ![r] =
                            Finished(w, n > remaining \/ next # Unknown \/ Announces(r, w.processed))]
                     ELSE work' = [work EXCEPT ![r] = Again(w, next)]
  /\ UNCHANGED <<clients, tokens>>

\* resolve_public_playlist: one page, whose embedded list may be a prefix only if
\* it announces the whole.
EmbeddedPage(r) ==
  /\ Served(r) /\ work[r].method = "embedded"
  /\ \E n \in 0..work[r].length :
       /\ n < work[r].length => work[r].total # Unknown
       /\ LET upto == IF n < work[r].limit THEN n ELSE work[r].limit
          IN \E good \in SUBSET (1..upto) :
               work' = [work EXCEPT ![r] =
                 Finished(Converted(r, 1, upto, good), n > upto \/ Announces(r, upto))]
  /\ UNCHANGED <<clients, tokens>>

\* AppleMusicPublicCatalog::resolve_album: one item more than the limit is asked
\* for, fewer may be returned, and the count that the tracks carry counts if they
\* agree on it.
LookupPage(r) ==
  /\ Served(r) /\ work[r].method = "lookup"
  /\ LET limit == work[r].limit
     IN \E returned \in 0..(IF work[r].length < limit + 1 THEN work[r].length ELSE limit + 1) :
          LET reported == IF returned = 0 THEN Unknown ELSE work[r].total
              upto     == IF returned < limit THEN returned ELSE limit
          IN \E good \in SUBSET (1..upto) :
               work' = [work EXCEPT ![r] =
                 Finished([Converted(r, 1, upto, good) EXCEPT !.returned = returned],
                          \/ returned > limit \/ reported > limit
                          \/ returned >= limit + 1 /\ reported = Unknown)]
  /\ UNCHANGED <<clients, tokens>>

\* Any other answer of a provider: 403, 404, 429, too large, malformed, none.  Apple
\* refuses the app's credentials with a 401, of which there is no second try.
Rejected(r) ==
  /\ work[r].pc = "get"
  /\ \/ Fail(r, "transport")
     \/ Signs(r) /\ Fail(r, "credentials")
  /\ UNCHANGED <<clients, tokens>>

-----------------------------------------------------------------------------
\* The resolver's deadline drops the future, and the mutex with it.
Cancel(r) ==
  /\ work[r].pc \notin {"idle", "done", "failed"}
  /\ work' = [work EXCEPT ![r] = Idle]
  /\ issuing' = IF issuing = r THEN Nobody ELSE issuing
  /\ UNCHANGED <<clients, cached, issued, accepted>>

Return(r) ==
  /\ work[r].pc \in {"done", "failed"}
  /\ work' = [work EXCEPT ![r] = Idle]
  /\ UNCHANGED <<clients, tokens>>

Init ==
  /\ clients \in [Providers -> {"none", "app", "public"}]
  /\ work = [r \in Resolutions |-> Idle]
  /\ cached = 0 /\ issuing = Nobody /\ issued = 0 /\ accepted = {}

Next ==
  \/ \E r \in Resolutions :
       \/ Start(r) \/ Token(r) \/ Issue(r) \/ Refused(r) \/ Invalidate(r) \/ Rejected(r)
       \/ Single(r) \/ AlbumPage(r) \/ LinkedPage(r) \/ EmbeddedPage(r) \/ LookupPage(r)
       \/ Cancel(r) \/ Return(r)
  \/ Expire \/ Revoke

Spec == Init /\ [][Next]_vars

-----------------------------------------------------------------------------
\* A collection tells the truth: its tracks are a selection of the source's first
\* items, in their order and none twice, whatever links the provider gives, and
\* one that is not called truncated has looked at every item of the source, or at
\* every one that a lookup returned (the `truncated' that play.rs reports to the
\* user).
CollectionIsHonest ==
  \A r \in Resolutions : work[r].pc = "done" =>
    LET w == work[r]
    IN /\ \A i \in 1..(Len(w.tracks) - 1) : w.tracks[i] < w.tracks[i + 1]
       /\ w.processed <= w.limit
       /\ w.truncated \/ w.processed = IF w.method = "lookup" THEN w.returned ELSE w.length

\* A refusal by Spotify's API is reported as invalid credentials only when a token
\* that was not the first one was refused too: a token that others have replaced or
\* that was revoked meanwhile costs a retry, not the resolution
\* (SpotifyCatalog::get_json).
RefusalIsConfirmed ==
  \A r \in Resolutions :
    work[r].error = "credentials" /\ work[r].refused # {} => Cardinality(work[r].refused) = 2

===============================================================================
