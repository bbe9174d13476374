-------------------------------- MODULE Page --------------------------------
(***************************************************************************)
(* The dashboard page of one browser tab (web/src/app): who is signed in,  *)
(* which guild is selected, what is shown of it, and the asynchronous work *)
(* that changes these: the bootstrap with its search for a preferred guild *)
(* (use-live-dashboard.ts), the event stream and the preset catalog of the *)
(* selected guild, the logout, and one player command at a time            *)
(* (use-player-command.ts).                                                *)
(*                                                                         *)
(* A handler's state updates and the effects of the render that follows    *)
(* them are one step: in the window between them the code drops what       *)
(* arrives (sessionGenerationRef) or the effect overwrites it.             *)
(*                                                                         *)
(* Work that was aborted or invalidated is still on its way: its answer is *)
(* kept in late, at most MaxLate of them, until it comes in.  What the     *)
(* servers answer is the environment's choice.  Revisions are abstracted;  *)
(* SnapshotFeed models the stream's.  Messages and pending indicators are  *)
(* left out.                                                               *)
(***************************************************************************)
EXTENDS Naturals, FiniteSets, Sequences, FiniteSetsExt, Functions

CONSTANTS
    Listed,     \* the guilds in the order the server lists them
    NoGuild,    \* the empty guild id
    Nothing,    \* no session, no snapshot, no work
    MaxLate     \* bound: answers under way of work that was given up

VARIABLES
    page,       \* what React holds: auth, selected, shown, presets, signedOut, leaving
    boot,       \* the bootstrap effect of the current generation
    stream,     \* the event stream of the selected guild; "muted" once the session moved on
    catalog,    \* the request for the selected guild's presets
    command,    \* the command that is pending
    late        \* work that was given up and may still answer

vars == <<page, boot, stream, catalog, command, late>>

Guilds == Range(Listed)
Sources == {"stream", "command"}
Steps == {"sending", "polling", "confirming"}

Task(kinds) == [guild : Guilds \cup {NoGuild}, step : kinds, live : BOOLEAN]
StreamTask == Task({"heard", "muted"})
CatalogTask == Task({"loading", "loaded"})
CommandTask == Task(Steps)
Boots == [step : {"fetching", "probing", "done"}, present : SUBSET Guilds]

TypeOK ==
    /\ page \in [auth : {Nothing} \cup {<<p>> : p \in SUBSET Guilds},
                 selected : Guilds \cup {NoGuild},
                 shown : {Nothing} \cup [guild : Guilds, by : Sources],
                 presets : Guilds \cup {NoGuild},
                 signedOut : BOOLEAN, leaving : BOOLEAN]
    /\ boot \in Boots
    /\ stream \in {Nothing} \cup StreamTask
    /\ catalog \in {Nothing} \cup CatalogTask
    /\ command \in {Nothing} \cup CommandTask
    /\ late \in SUBSET (StreamTask \cup CatalogTask \cup CommandTask)
    /\ Cardinality(late) <= MaxLate

-----------------------------------------------------------------------------
(* Rendering. *)

(* selectInitialGuild: the current guild while the bot is in it, else the  *)
(* first that has the bot.                                                 *)
Initial(current, present) ==
    IF current \in present THEN current
    ELSE IF present = {} THEN NoGuild
    ELSE Listed[Min({i \in DOMAIN Listed : Listed[i] \in present})]

(* clearPlayerState. *)
Cleared(p) == [p EXCEPT !.selected = NoGuild, !.shown = Nothing, !.presets = NoGuild]

(* markUnauthorized. *)
Unauthorized(p) == [Cleared(p) EXCEPT !.auth = Nothing, !.signedOut = TRUE]

(* What is given up may still answer, or never. *)
Abandon(tasks) ==
    late' \in {late} \cup {late \cup {[t EXCEPT !.live = FALSE]} :
                              t \in {u \in tasks \ {Nothing} : Cardinality(late) < MaxLate}}

(* The render after a handler left the page as p: when the session, the    *)
(* guild or the generation changed, the effects of the stream and of the   *)
(* catalog abort what runs and start again; otherwise a stream begun       *)
(* before the session generation moved is no longer listened to.           *)
Render(p, refreshed, moved, dropped) ==
    LET restart == refreshed \/ p.auth # page.auth \/ p.selected # page.selected
        open == p.auth # Nothing /\ p.selected # NoGuild
        begun(step) == IF open THEN [guild |-> p.selected, step |-> step, live |-> TRUE]
                       ELSE Nothing
    IN  IF restart
        THEN /\ page' = [p EXCEPT !.shown = IF open THEN Nothing ELSE @, !.presets = NoGuild]
             /\ stream' = begun("heard")
             /\ catalog' = begun("loading")
             /\ Abandon({stream, catalog} \cup dropped)
        ELSE /\ page' = p
             /\ stream' = IF moved /\ stream # Nothing THEN [stream EXCEPT !.step = "muted"] ELSE stream
             /\ UNCHANGED catalog
             /\ Abandon(dropped)

Fetching == [step |-> "fetching", present |-> {}]

-----------------------------------------------------------------------------
(* The bootstrap.  A new generation aborts the one that runs. *)

(* setAuth installs a new object, so the effects start again. *)
BootSucceeds(present) ==
    LET fallback == Initial(NoGuild, present)
    IN  /\ boot.step = "fetching"
        /\ boot' = [step |-> IF fallback = NoGuild THEN "done" ELSE "probing", present |-> present]
        /\ Render([page EXCEPT !.auth = <<present>>,
                               !.selected = Initial(@, present), !.signedOut = FALSE],
                  TRUE, FALSE, {})
        /\ UNCHANGED command

(* 401 marks the page unauthorized; a pending command is not invalidated. *)
BootFails(unauthorized) ==
    /\ boot.step = "fetching"
    /\ boot' = [step |-> "done", present |-> {}]
    /\ IF unauthorized THEN Render(Unauthorized(page), FALSE, TRUE, {})
       ELSE UNCHANGED <<page, stream, catalog, late>>
    /\ UNCHANGED command

(* findPreferredGuild: a guild that plays, by the user's wish first; the   *)
(* selection follows only if it still is the fallback.                     *)
Prefer(guild) ==
    /\ boot.step = "probing"
    /\ guild \in boot.present
    /\ boot' = [step |-> "done", present |-> {}]
    /\ Render([page EXCEPT !.selected = IF @ = Initial(NoGuild, boot.present) THEN guild ELSE @],
              FALSE, FALSE, {})
    /\ UNCHANGED command

Bootstrap ==
    \/ \E present \in SUBSET Guilds : BootSucceeds(present)
    \/ \E unauthorized \in BOOLEAN : BootFails(unauthorized)
    \/ \E guild \in Guilds : Prefer(guild)

-----------------------------------------------------------------------------
(* The event stream and the catalog.  Work that was aborted changes        *)
(* nothing when it answers.                                                *)

Done(task) == late' = late \ {task}

Heard(s) == s.live /\ s.step = "heard"

(* Mutant: the callback forgets that its stream was aborted. *)
AbortedSnapshot(s) ==
    /\ page' = [page EXCEPT !.shown = [guild |-> s.guild, by |-> "stream"]]
    /\ Done(s)
    /\ UNCHANGED <<boot, stream, catalog, command>>

StreamSnapshot(s) ==
    /\ page' = IF Heard(s) THEN [page EXCEPT !.shown = [guild |-> s.guild, by |-> "stream"]] ELSE page
    /\ Done(s)
    /\ UNCHANGED <<boot, stream, catalog, command>>

(* 401 ends the session, 403 the selection; any other error reconnects. *)
StreamRefused(status) ==
    /\ stream # Nothing
    /\ Heard(stream)
    /\ command' = Nothing
    /\ \/ status = 401 /\ Render(Unauthorized(page), FALSE, TRUE, {command})
       \/ /\ status = 403
          /\ Render([page EXCEPT !.selected = NoGuild, !.shown = Nothing], FALSE, FALSE, {command})
    /\ UNCHANGED boot

PresetsLoaded(c) ==
    /\ c.step = "loading"
    /\ IF c.live
       THEN /\ page' = [page EXCEPT !.presets = c.guild]
            /\ catalog' = [c EXCEPT !.step = "loaded"]
       ELSE UNCHANGED <<page, catalog>>
    /\ Done(c)
    /\ UNCHANGED <<boot, stream, command>>

PresetsFail(unauthorized) ==
    /\ catalog # Nothing
    /\ catalog.step = "loading"
    /\ IF unauthorized
       THEN /\ command' = Nothing
            /\ Render(Unauthorized(page), FALSE, TRUE, {command})
       ELSE /\ catalog' = [catalog EXCEPT !.step = "loaded"]
            /\ page' = [page EXCEPT !.presets = NoGuild]
            /\ UNCHANGED <<stream, command, late>>
    /\ UNCHANGED boot

Effects ==
    \/ \E s \in ({stream} \cup late) \cap StreamTask : StreamSnapshot(s)
    \/ \E status \in {401, 403} : StreamRefused(status)
    \/ \E c \in ({catalog} \cup late) \cap CatalogTask : PresetsLoaded(c)
    \/ \E unauthorized \in BOOLEAN : PresetsFail(unauthorized)

-----------------------------------------------------------------------------
(* The user. *)

(* Mutant: a pending command does not keep the user from leaving. *)
SelectAnyTime(guild) ==
    /\ page.auth # Nothing
    /\ guild \in page.auth[1]
    /\ Render([page EXCEPT !.selected = guild, !.shown = Nothing, !.presets = NoGuild],
              FALSE, TRUE, {})
    /\ UNCHANGED <<boot, command>>

(* selectGuild: not while a command is pending; the selected guild itself  *)
(* may be chosen again.                                                    *)
Select(guild) ==
    /\ command = Nothing
    /\ page.auth # Nothing
    /\ guild \in page.auth[1]
    /\ Render([page EXCEPT !.selected = guild, !.shown = Nothing, !.presets = NoGuild],
              FALSE, TRUE, {})
    /\ UNCHANGED <<boot, command>>

(* retry: a new generation of everything. *)
Retry ==
    /\ boot' = Fetching
    /\ command' = Nothing
    /\ Render(page, TRUE, TRUE, {command})

Logout ==
    /\ page.auth # Nothing
    /\ ~page.leaving
    /\ page' = [page EXCEPT !.leaving = TRUE]
    /\ UNCHANGED <<boot, stream, catalog, command, late>>

(* Success and 401 end the session; another failure leaves it as it is. *)
LoggedOut(ended) ==
    /\ page.leaving
    /\ IF ended
       THEN /\ command' = Nothing
            /\ Render([Unauthorized(page) EXCEPT !.leaving = FALSE], FALSE, TRUE, {command})
       ELSE /\ page' = [page EXCEPT !.leaving = FALSE]
            /\ UNCHANGED <<stream, catalog, command, late>>
    /\ UNCHANGED boot

(* run: sent for the selected guild with the shown revision; without a     *)
(* selection the address is nobody's and the request fails.                *)
Run ==
    /\ command = Nothing
    /\ page.auth # Nothing
    /\ page.shown # Nothing
    /\ command' = [guild |-> page.selected, step |-> "sending", live |-> TRUE]
    /\ UNCHANGED <<page, boot, stream, catalog, late>>

User ==
    \/ \E guild \in Guilds : Select(guild)
    \/ Retry
    \/ Logout
    \/ \E ended \in BOOLEAN : LoggedOut(ended)
    \/ Run

-----------------------------------------------------------------------------
(* The pending command: sendPlayerCommand, waitForCommandResult and        *)
(* waitForSnapshotRevision.  Each continuation first asks isCurrent.       *)

Proceed(c) ==
    /\ c.step \in {"sending", "polling"}
    /\ c.guild # NoGuild
    /\ command' = IF c.live
                  THEN [c EXCEPT !.step = IF @ = "sending" THEN "polling" ELSE "confirming"]
                  ELSE command
    /\ Done(c)
    /\ UNCHANGED <<page, boot, stream, catalog>>

(* The confirmed snapshot is installed as it is: neither its guild nor its *)
(* revision is compared with what the page shows by now.                   *)
Confirmed(c) ==
    /\ c.step = "confirming"
    /\ IF c.live
       THEN /\ page' = [page EXCEPT !.shown = [guild |-> c.guild, by |-> "command"]]
            /\ command' = Nothing
       ELSE UNCHANGED <<page, command>>
    /\ Done(c)
    /\ UNCHANGED <<boot, stream, catalog>>

(* A request fails, the command is refused or its answer takes too long.   *)
(* 403 asks for the guilds again (refreshAfterForbiddenCommand).           *)
CommandFails(status) ==
    /\ command # Nothing
    /\ command' = Nothing
    /\ \/ status = 401 /\ Render(Unauthorized(page), FALSE, TRUE, {}) /\ UNCHANGED boot
       \/ status = 403 /\ Render(Cleared(page), TRUE, TRUE, {}) /\ boot' = Fetching
       \/ status \notin {401, 403} /\ UNCHANGED <<page, boot, stream, catalog, late>>

CommandSteps ==
    \/ \E c \in ({command} \cup late) \cap CommandTask : Proceed(c) \/ Confirmed(c)
    \/ \E status \in {401, 403, 500} : CommandFails(status)

-----------------------------------------------------------------------------
Init ==
    /\ page = [auth |-> Nothing, selected |-> NoGuild, shown |-> Nothing, presets |-> NoGuild,
               signedOut |-> FALSE, leaving |-> FALSE]
    /\ boot = Fetching
    /\ stream = Nothing
    /\ catalog = Nothing
    /\ command = Nothing
    /\ late = {}

Next == Bootstrap \/ Effects \/ User \/ CommandSteps

Spec == Init /\ [][Next]_vars

-----------------------------------------------------------------------------
(* The presets are the selected guild's, and so is what the stream brought *)
(* while a guild is selected; a page that is signed out shows nothing a    *)
(* stream brought: no late answer of an earlier stream or catalog request  *)
(* comes through after a switch of guild, a retry, a logout or an expired  *)
(* session.  (When a retry finds the bot in no guild any more, the last    *)
(* snapshot stays: the effect that would clear it only runs for a guild.)  *)
StreamShowsSelected ==
    /\ page.presets # NoGuild => page.presets = page.selected
    /\ page.shown # Nothing /\ page.shown.by = "stream" =>
          /\ page.auth # Nothing
          /\ page.selected \in {page.shown.guild, NoGuild}

(* A snapshot of another guild, or of an ended session, can only come from *)
(* a command that was still current when its page moved on; and only the   *)
(* bootstrap moves a page on under a current command: its search for a     *)
(* preferred guild does not look at pending commands, nor does its 401.    *)
(* Every other way of leaving the guild invalidates the command first or   *)
(* is refused while it is pending.                                         *)
OnlyBootstrapStrandsCommand ==
    [][ /\ command # Nothing
        /\ command' # Nothing
        /\ command.guild = page.selected
        /\ command'.guild # page.selected'
        => boot' # boot ]_vars

(* The page hears the stream it keeps open, until the selected guild is    *)
(* chosen once more: selectGuild moves the session generation, but as the  *)
(* guild stays the same no effect opens a new stream.                      *)
OnlyReselectionMutes ==
    [][ /\ stream # Nothing
        /\ Heard(stream)
        /\ stream' # Nothing
        /\ ~Heard(stream')
        => Select(page.selected) ]_vars

=============================================================================
