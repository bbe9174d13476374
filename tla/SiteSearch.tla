------------------------------ MODULE SiteSearch ------------------------------
(***************************************************************************)
(* Finding a catalog track on YouTube or SoundCloud (YtDlpClient over      *)
(* yt-dlp): the first result of YouTube if it matches, else the best of    *)
(* five YouTube results, else the best of five SoundCloud results.         *)
(*                                                                         *)
(* Titles and artists are compared as normalized text; what the comparison *)
(* yields is all that is kept of a listing.  Resolving a listed page gives *)
(* its true duration, or an error: soft where another candidate may do,    *)
(* fatal where the tool or its answer cannot be trusted.                   *)
(***************************************************************************)
EXTENDS Integers, Sequences, Sorting

CONSTANTS
  Listings,      \* what a search may list
  MaxListed      \* bound on the listings of a search; the code asks for 5

VARIABLES
  search,   \* what is looked for: are its artists and its duration known?
  pc, provider,
  listed,   \* the listings of the search in progress
  untried,  \* the ranked candidates not tried yet: indices into listed
  result    \* the match, the error, or nothing yet

vars == <<search, pc, provider, listed, untried, result>>

MINIMUM_SCORE == 55
MAXIMUM_CANDIDATES_TO_RESOLVE == 3

\* A listing: how its title compares, whether a qualifier such as "live" is on one
\* side only, how many expected artists it names, how far off its duration is,
\* and whether it is announced as a video.
AllListings ==
  [title : {"same", "contains", "overlaps", "differs"}, conflict : BOOLEAN, artists : 0..2,
   duration : {"unknown", "close", "tolerated", "far"}, visual : BOOLEAN]

NoResult == [kind |-> "none"]
Error(e) == [kind |-> "error", error |-> e]

TypeOK ==
  /\ search \in [artists : BOOLEAN, duration : BOOLEAN]
  /\ pc \in {"first", "search", "try", "done"} /\ provider \in {"youtube", "soundcloud"}
  /\ listed \in Seq(Listings) /\ Len(listed) <= MaxListed
  /\ \A i \in 1..Len(untried) : untried[i] \in DOMAIN listed
  /\ result.kind \in {"none", "error", "match"}

-----------------------------------------------------------------------------
(* Scores.                                                                 *)

\* token_overlap reaches 60 of 100 for a title that overlaps.
TitleScore(l) ==
  [same |-> 65, contains |-> 55, overlaps |-> 33, differs |-> 0][l.title]

ArtistScore(l) == IF ~search.artists THEN 10 ELSE 15 * l.artists

\* The durations of both are known.
Compared(l) == search.duration /\ l.duration # "unknown"

DurationScore(l) ==
  IF ~Compared(l) THEN 0 ELSE [close |-> 15, tolerated |-> 5, far |-> 0][l.duration]

\* candidate_score is None.
Disqualified(l) ==
  \/ l.conflict
  \/ TitleScore(l) < 30
  \/ search.artists /\ l.artists = 0
  \/ Compared(l) /\ l.duration = "far"

Score(l) == TitleScore(l) + ArtistScore(l) + DurationScore(l) - (IF l.visual THEN 10 ELSE 0)

Matches(l) == ~Disqualified(l) /\ Score(l) >= MINIMUM_SCORE

\* Reverse order of the scores; the sort is stable.
Better(i, j) == \/ Score(listed'[i]) > Score(listed'[j])
                \/ Score(listed'[i]) = Score(listed'[j]) /\ i < j

\* ranked_candidates.
Ranked ==
  LET good   == {i \in DOMAIN listed' : Matches(listed'[i])}
      ranked == Sorted(good, Better)
  IN SubSeq(ranked, 1, IF Len(ranked) < MAXIMUM_CANDIDATES_TO_RESOLVE
                       THEN Len(ranked) ELSE MAXIMUM_CANDIDATES_TO_RESOLVE)

\* duration_matches.
DurationMatches(d) == search.duration => d \in {"close", "tolerated"}

-----------------------------------------------------------------------------
(* What resolving a page gives: parse::resolved, or a failure of the tool. *)

Soft  == {"NoSearchMatch", "UnsupportedStream"}
Fatal == {"InvalidMetadata", "DurationLimit", "Process"}
Durations == {"close", "tolerated", "far"}

Found(l, d) == [kind |-> "match", listing |-> l, duration |-> d]

Finish(r) == pc' = "done" /\ result' = r /\ listed' = <<>> /\ untried' = <<>>

\* A provider without a usable candidate: SoundCloud is the last.
Exhausted ==
  IF provider = "youtube"
  THEN pc' = "search" /\ provider' = "soundcloud" /\ listed' = <<>> /\ untried' = <<>>
       /\ UNCHANGED result
  ELSE Finish(Error("NoSearchMatch")) /\ UNCHANGED provider

\* resolve_first_result; its listing and its duration come from one answer.
First ==
  /\ pc = "first"
  /\ \/ \E l \in AllListings :
          /\ l.duration # "unknown"
          /\ IF Matches(l) THEN Finish(Found(l, l.duration))
             ELSE pc' = "search" /\ UNCHANGED <<listed, untried, result>>
          /\ UNCHANGED provider
     \/ pc' = "search" /\ UNCHANGED <<provider, listed, untried, result>>  \* UnsupportedStream
     \/ Exhausted                                                          \* NoSearchMatch
     \/ \E e \in Fatal : Finish(Error(e)) /\ UNCHANGED provider
  /\ UNCHANGED search

\* search_provider up to the ranking; a search that lists nothing is NoSearchMatch.
Search ==
  /\ pc = "search"
  /\ \/ \E s \in UNION {[1..n -> Listings] : n \in 0..MaxListed} :
          /\ listed' = s
          /\ untried' = Ranked
          /\ untried' # <<>>
          /\ pc' = "try" /\ UNCHANGED <<provider, result>>
     \/ Exhausted
     \/ \E e \in Fatal : Finish(Error(e)) /\ UNCHANGED provider
  /\ UNCHANGED search

Try ==
  /\ pc = "try"
  /\ \/ /\ untried # <<>>
        /\ \E d \in Durations :
             IF DurationMatches(d) THEN Finish(Found(listed[Head(untried)], d))
             ELSE untried' = Tail(untried) /\ UNCHANGED <<pc, listed, result>>
        /\ UNCHANGED provider
     \/ /\ untried # <<>>
        /\ untried' = Tail(untried)          \* a soft error
        /\ UNCHANGED <<pc, provider, listed, result>>
     \/ /\ untried # <<>>
        /\ \E e \in Fatal : Finish(Error(e)) /\ UNCHANGED provider
     \/ untried = <<>> /\ Exhausted
  /\ UNCHANGED search

Init ==
  /\ search \in [artists : BOOLEAN, duration : BOOLEAN]
  /\ pc = "first" /\ provider = "youtube"
  /\ listed = <<>> /\ untried = <<>> /\ result = NoResult

Next == First \/ Search \/ Try

Spec == Init /\ [][Next]_vars

-----------------------------------------------------------------------------
\* What is played for a catalog track is that track: no live version, cover or
\* remix that was not asked for, by one of its artists, and as long as it, by the
\* true duration and not only by the listed one (search_provider).
MatchIsFaithful ==
  result.kind = "match" =>
    /\ ~result.listing.conflict
    /\ result.listing.title # "differs"
    /\ search.artists => result.listing.artists > 0
    /\ search.duration => result.duration # "far"

\* The candidates are tried best first, the search's own order deciding ties: what
\* was not tried yet is no better than what is being tried.
BestFirst ==
  \A i, j \in 1..Len(untried) : i < j =>
    LET a == listed[untried[i]]
        b == listed[untried[j]]
    IN \/ Score(a) > Score(b)
       \/ Score(a) = Score(b) /\ untried[i] < untried[j]

===============================================================================
