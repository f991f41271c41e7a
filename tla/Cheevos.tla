------------------------------- MODULE Cheevos -------------------------------
(***************************************************************************)
(* RetroAchievements (crates/rusty2600-cheevos, crates/rusty2600-frontend's *)
(* cheevos.rs and the login panel): the window's thread asks, one worker    *)
(* thread does the HTTP, and each redraw with a ROM open lets the rcheevos  *)
(* library take the answers, which call back into the window.               *)
(*                                                                          *)
(* A request is a boxed completion with a number; the library's loads are   *)
(* known by the number of theirs.  The library is the vendored C code, as   *)
(* far as logging in, loading and unloading a game go.  What a frame of a   *)
(* watched game raises is left out: see LoadedIsWatched.                    *)
(***************************************************************************)
EXTENDS Integers, Sequences

CONSTANTS Roms, NoRom,
          MaxRequests,  \* bound: completions ever made
          MaxEvents     \* bound: events between two redraws

ASSUME RomAssumption == NoRom \notin Roms
ASSUME BoundAssumption == MaxRequests \in Nat /\ MaxEvents \in Nat

VARIABLES
  rom,      \* the ROM that is open, or NoRom
  made,     \* how many completions have been made
  s,        \* the window's state and the library's: see CheevosInit
  worker,   \* the job the worker performs, or NoJob
  done,     \* HttpTransport::completion_rx
  pumping   \* a redraw is taking the answers

cheevosVars == <<rom, made, s, worker, done, pumping>>

Ids == 1 .. MaxRequests
NoJob == [kind |-> "none", id |-> 0]
NoGame == [rom |-> NoRom, live |-> FALSE, waiting |-> FALSE]

CheevosInit ==
  /\ rom = NoRom /\ made = 0
  /\ s = [login |-> "LoggedOut", loaded |-> FALSE,     \* CheevosState
          of |-> [i \in Ids |-> NoRom],                \* what a completion is of: a ROM's load, or a login
          called |-> [i \in Ids |-> 0],                \* how often it has run
          user |-> "none", load |-> 0, awaits |-> FALSE, aborted |-> {},
          game |-> NoGame, hardcore |-> TRUE,          \* rc_client_t
          jobs |-> <<>>, events |-> <<>>]              \* HttpTransport, EVENT_QUEUE
  /\ worker = NoJob /\ done = <<>> /\ pumping = FALSE

------------------------------------------------------------------------------
(* Calls and callbacks, as operators on the state s.                       *)

\* completion_trampoline, and the closures of begin_login and load_rom.
Complete(t, id, ok) ==
  LET run == [t EXCEPT !.called[id] = IF @ < 2 THEN @ + 1 ELSE @]
  IN  IF t.of[id] = NoRom
      THEN [run EXCEPT !.login = IF ok THEN "LoggedIn" ELSE "Error"]
      ELSE [run EXCEPT !.loaded = ok]

\* server_call_trampoline and HttpTransport::enqueue.
Enqueue(t, kind, id) == [t EXCEPT !.jobs = Append(@, [kind |-> kind, id |-> id])]

\* rc_client_load_error.
LoadError(t, id) == Complete([t EXCEPT !.load = IF @ = id THEN 0 ELSE @], id, FALSE)

\* rc_client_begin_fetch_game_sets.
FetchGameSets(t) ==
  CASE t.user = "in" -> Enqueue([t EXCEPT !.awaits = FALSE], "sets", t.load)
    [] t.user = "requested" -> [t EXCEPT !.awaits = TRUE]
    [] t.user = "none" -> LoadError([t EXCEPT !.awaits = FALSE], t.load)

\* rc_client_unload_game.
UnloadGame(t) == [t EXCEPT !.game = NoGame, !.load = 0, !.aborted = @ \cup ({t.load} \ {0})]

\* rc_client_abort_load_in_progress.
AbortLoad(t) ==
  IF t.load = 0
  THEN t
  ELSE Complete([t EXCEPT !.load = 0, !.aborted = @ \cup {t.load}], t.load, FALSE)

\* rc_client_begin_identify_and_load_game.
BeginLoad(t, id) == FetchGameSets([UnloadGame(AbortLoad(t)) EXCEPT !.load = id])

\* rc_client_begin_login, with a user name and a password.
BeginLogin(t, id) ==
  IF t.user = "requested"
  THEN Complete(t, id, FALSE)
  ELSE Enqueue([t EXCEPT !.user = "requested"], "login", id)

\* The read closure is installed in these calls alone, so a load that an answer
\* completes finds every address invalid.
Installed(call) == call \in {"do_frame", "idle", "reset", "deserialize_progress"}

\* rc_client_activate_game and rc_client_validate_addresses.
ActivateGame(t, id) ==
  Complete([t EXCEPT !.game = [rom |-> t.of[id], live |-> Installed("poll_http_completions"),
                               waiting |-> FALSE],
                     !.load = 0],
           id, TRUE)

\* rc_client_login_callback.
LoginCallback(t, id, answer) ==
  LET resumed(u) == IF u.load # 0 /\ u.awaits THEN FetchGameSets(u) ELSE u
  IN  CASE t.user = "none" -> Complete(t, id, FALSE)
        [] t.user # "none" /\ answer = "ok" -> Complete(resumed([t EXCEPT !.user = "in"]), id, TRUE)
        [] t.user # "none" /\ answer # "ok" -> resumed(Complete([t EXCEPT !.user = "none"], id, FALSE))

\* Bug: a load that was aborted runs its completion once more.
BugLoadAborted(t, id) == LoadError(t, id)

\* rc_client_load_aborted: the completion has run already, or was given up.
LoadAborted(t, id) == t

\* rc_client_fetch_game_sets_callback and rc_client_start_session_callback.
LoadCallback(t, id, kind, answer) ==
  CASE id \in t.aborted -> LoadAborted(t, id)
    [] id \notin t.aborted /\ answer = "error" -> LoadError(t, id)
    [] id \notin t.aborted /\ answer = "unknown" ->
         LoadError([t EXCEPT !.game = [NoGame EXCEPT !.rom = t.of[id]]], id)
    [] id \notin t.aborted /\ answer = "ok" ->
         IF kind = "sets" THEN Enqueue(t, "session", id) ELSE ActivateGame(t, id)

\* What poll_completions does with one answer.
Answered(t, job, answer) ==
  IF job.kind = "login" THEN LoginCallback(t, job.id, answer)
  ELSE LoadCallback(t, job.id, job.kind, answer)

------------------------------------------------------------------------------
(* The window's thread.                                                    *)

\* box_completion: a new number, of a ROM's load or of a login.
Boxed(of) == [s EXCEPT !.of[made + 1] = of]
CanAsk == ~ pumping /\ made < MaxRequests

\* The panel's button, which is there while nobody is logged in or logging in;
\* a name or a password that is empty fails at once.
Login ==
  /\ CanAsk
  /\ s.login \in {"LoggedOut", "Error"}
  /\ LET t == [Boxed(NoRom) EXCEPT !.login = "LoggingIn"]
     IN  s' \in {BeginLogin(t, made + 1), Complete(t, made + 1, FALSE)}
  /\ made' = made + 1
  /\ UNCHANGED <<rom, worker, done, pumping>>

Logout ==
  /\ ~ pumping
  /\ s.login = "LoggedIn"
  /\ LET out == UnloadGame([s EXCEPT !.user = "none"])
     IN  s' = [out EXCEPT !.login = "LoggedOut"]
  /\ UNCHANGED <<rom, made, worker, done, pumping>>

\* A ROM is opened and its board is known.
LoadRom(r) ==
  /\ CanAsk
  /\ rom' = r
  /\ made' = made + 1
  /\ s' = BeginLoad([Boxed(r) EXCEPT !.loaded = FALSE], made + 1)
  /\ UNCHANGED <<worker, done, pumping>>

\* CheevosState::close_rom.
Closed(t) == UnloadGame([t EXCEPT !.loaded = FALSE])

CloseRom ==
  /\ ~ pumping
  /\ rom # NoRom
  /\ rom' = NoRom
  /\ s' = Closed(s)
  /\ UNCHANGED <<made, worker, done, pumping>>

\* A game must be reset before it is watched in hardcore mode.
SetHardcore(t) ==
  IF ~ t.hardcore /\ t.game # NoGame
  THEN [t EXCEPT !.hardcore = TRUE, !.game.waiting = TRUE, !.events = Append(@, "Reset")]
  ELSE [t EXCEPT !.hardcore = ~ @]

ToggleHardcore ==
  /\ ~ pumping
  /\ Len(s.events) < MaxEvents
  /\ s' = SetHardcore(s)
  /\ UNCHANGED <<rom, made, worker, done, pumping>>

\* pump, at a redraw: do_frame, then the answers that are there by the time it
\* looks, then the events, none of which resets anything.
Pump ==
  /\ ~ pumping
  /\ rom # NoRom
  /\ pumping' = TRUE
  /\ UNCHANGED <<rom, made, s, worker, done>>

Poll ==
  /\ pumping
  /\ done # <<>>
  /\ s' = Answered(s, Head(done).job, Head(done).answer)
  /\ done' = Tail(done)
  /\ UNCHANGED <<rom, made, worker, pumping>>

TakeEvents ==
  /\ pumping
  /\ done = <<>>
  /\ s' = [s EXCEPT !.events = <<>>]
  /\ pumping' = FALSE
  /\ UNCHANGED <<rom, made, worker, done>>

------------------------------------------------------------------------------
(* The worker's thread.                                                    *)

WorkerTakes ==
  /\ worker = NoJob
  /\ s.jobs # <<>>
  /\ worker' = Head(s.jobs)
  /\ s' = [s EXCEPT !.jobs = Tail(@)]
  /\ UNCHANGED <<rom, made, done, pumping>>

\* Bug: an exchange that fails has no answer.
BugPerform(job) ==
  {<<[job |-> job, answer |-> a]>> : a \in {"ok"} \cup (IF job.kind = "sets" THEN {"unknown"} ELSE {})} \cup {<<>>}

\* perform: the server answers, or refuses, or the transport fails or times out.
Perform(job) ==
  {<<[job |-> job, answer |-> a]>> :
     a \in {"ok", "error"} \cup (IF job.kind = "sets" THEN {"unknown"} ELSE {})}

WorkerAnswers ==
  /\ worker # NoJob
  /\ \E sent \in Perform(worker) : done' = done \o sent
  /\ worker' = NoJob
  /\ UNCHANGED <<rom, made, s, pumping>>

CheevosNext ==
  \/ Login \/ Logout \/ (\E r \in Roms : LoadRom(r)) \/ CloseRom \/ ToggleHardcore
  \/ Pump \/ Poll \/ TakeEvents
  \/ WorkerTakes \/ WorkerAnswers

\* The window redraws for ever, and every exchange ends within its 30 seconds.
CheevosFairness ==
  /\ WF_cheevosVars(Pump) /\ WF_cheevosVars(Poll) /\ WF_cheevosVars(TakeEvents)
  /\ WF_cheevosVars(WorkerTakes) /\ WF_cheevosVars(WorkerAnswers)

CheevosSpec == CheevosInit /\ [][CheevosNext]_cheevosVars /\ CheevosFairness

------------------------------------------------------------------------------
(* Properties.                                                             *)

\* However late an answer comes, it lands where it belongs: no completion runs
\* twice (its box is freed by the first run), the game the library watches or
\* loads is that of the ROM that is open, and the panel says what the library
\* knows of the user (client.rs 161-188; cheevos.rs 145-163).
AnswersBelong ==
  /\ \A i \in Ids : s.called[i] <= 1
  /\ s.game # NoGame => s.game.rom = rom
  /\ s.load # 0 => s.of[s.load] = rom
  /\ s.loaded => rom # NoRom
  /\ s.login = CASE s.user = "in" -> "LoggedIn" [] s.user = "requested" -> "LoggingIn"
                 [] s.user = "none" -> IF s.login = "Error" THEN "Error" ELSE "LoggedOut"

\* A login and a load both end, whatever becomes of their exchanges, while a ROM
\* stays open (http.rs 148-168 and 95-117).
AnswersArrive ==
  <>[](rom # NoRom) =>
    /\ [](s.login = "LoggingIn" => <>(s.login # "LoggingIn"))
    /\ [](s.load # 0 => <>(s.load = 0))

\* "Whether a game has been successfully identified and loaded" (cheevos.rs
\* 56-58): its achievements can be earned.
LoadedIsWatched == s.loaded => s.game.rom = rom /\ s.game.live /\ ~ s.game.waiting
==============================================================================
