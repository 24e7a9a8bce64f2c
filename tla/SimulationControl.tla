-------------------------- MODULE SimulationControl --------------------------
(***************************************************************************)
(* The simulator's control requests (src/lib/simulation/sim-routes.ts) and *)
(* the rows they create and delete (setupSimMatches, teardownSimMatches).  *)
(* The state is replaced as a whole by start, stop and every tick, while   *)
(* another request may be waiting for the database: a start keeps a        *)
(* reference to the state it made (the left side of                        *)
(* simState.matches = await ...), and its matches are lost when that state *)
(* has been replaced.                                                      *)
(*                                                                         *)
(* A row is the number of the start that made it, one at a time for each   *)
(* slot (championDataMatchId is unique).  How a match plays is             *)
(* SimulationPlay; the timer's period and the log are left out.            *)
(***************************************************************************)
EXTENDS Naturals, FiniteSets, Sequences

CONSTANTS
    Clients,      \* requests that may overlap
    MatchCount,   \* matches of a simulation
    MaxStarts,    \* bound on the starts
    Production    \* getSimulationDatabaseSafetyDecision refuses this process

ControlAssumption ==
    /\ MatchCount \in Nat \ {0} /\ MaxStarts \in Nat \ {0}
    /\ Production \in BOOLEAN

VARIABLES
    sim,        \* simState: whether it runs, is paused, and its matches
    tickTimer,  \* the timer is set
    rows,       \* the simulation rows of the database, 0 for none
    request,    \* what each client's request is doing
    starts,     \* how many starts there were
    overtaken,  \* history: the state was replaced while a start waited
    failed      \* history: a query failed

simVars == <<sim, tickTimer, rows, request, starts, overtaken, failed>>

Slots == 1..MatchCount
RowIds == 1..MaxStarts
NoRow == 0

\* A match refers to its row by its slot and the start that made it.
MatchRecords == Slots \X RowIds

CreateSimState == [running |-> FALSE, paused |-> FALSE, matches |-> <<>>]

NoRequest == [do |-> "none", id |-> 0, matches |-> <<>>, attached |-> FALSE]

Init ==
    /\ sim = CreateSimState
    /\ tickTimer = FALSE
    /\ rows = [slot \in Slots |-> NoRow]
    /\ request = [c \in Clients |-> NoRequest]
    /\ starts = 0
    /\ overtaken = FALSE
    /\ failed = FALSE

-----------------------------------------------------------------------------
(* Replacing the state                                                     *)

Starting(c) == request[c].do = "start"

\* The starts that wait no longer refer to the current state.
Detached ==
    [c \in Clients |-> IF Starting(c) THEN [request[c] EXCEPT !.attached = FALSE]
                                      ELSE request[c]]

\* simState = state, while the request of client c goes on as next.
Replace(state, c, next) ==
    /\ sim' = state
    /\ request' = [Detached EXCEPT ![c] = next]
    /\ overtaken' = (overtaken \/ \E other \in Clients \ {c} : Starting(other))

Idle(c) == request[c].do = "none"

Done(c) == request' = [request EXCEPT ![c] = NoRequest]

-----------------------------------------------------------------------------
(* start                                                                   *)

\* A mutation: a simulation that runs may be started again.
MayStartAgain == TRUE

\* A simulation that runs is not started again.
MayStart == ~sim.running

Start(c) ==
    /\ Idle(c)
    /\ ~Production
    /\ MayStart
    /\ starts < MaxStarts
    /\ starts' = starts + 1
    /\ Replace(CreateSimState, c,
               [do |-> "start", id |-> starts + 1, matches |-> <<>>, attached |-> TRUE])
    /\ UNCHANGED <<tickTimer, rows, failed>>

\* The next match of a setup; its slot may be taken by another start.
CreateRow(c) ==
    LET slot == Len(request[c].matches) + 1
    IN /\ Starting(c)
       /\ slot \in Slots
       /\ IF rows[slot] = NoRow
          THEN /\ rows' = [rows EXCEPT ![slot] = request[c].id]
               /\ request' = [request EXCEPT ![c].matches = Append(@, <<slot, request[c].id>>)]
          ELSE Done(c) /\ UNCHANGED rows
       /\ UNCHANGED <<sim, tickTimer, starts, overtaken, failed>>

\* The matches go to the state the start made, the rest to the present one.
Started(c) ==
    /\ Starting(c)
    /\ Len(request[c].matches) = MatchCount
    /\ sim' = [sim EXCEPT !.running = TRUE,
                          !.matches = IF request[c].attached THEN request[c].matches ELSE @]
    /\ tickTimer' = TRUE
    /\ Done(c)
    /\ UNCHANGED <<rows, starts, overtaken, failed>>

-----------------------------------------------------------------------------
(* stop                                                                    *)

Stop(c) ==
    /\ Idle(c)
    /\ tickTimer' = FALSE
    /\ IF sim.matches = <<>>
       THEN Replace(CreateSimState, c, NoRequest)
       ELSE /\ request' = [request EXCEPT ![c] = [do |-> "stop", id |-> 0,
                                                  matches |-> sim.matches,
                                                  attached |-> FALSE]]
            /\ UNCHANGED <<sim, overtaken>>
    /\ UNCHANGED <<rows, starts, failed>>

Stopping(c) == request[c].do = "stop"

\* A row is deleted by its own identifier.
RowOf(match) == rows[match[1]] = match[2]

\* The next row of a teardown; deleting one that is gone ends the request.
DeleteRow(c) ==
    /\ Stopping(c)
    /\ request[c].matches # <<>>
    /\ LET match == Head(request[c].matches)
       IN IF RowOf(match)
          THEN /\ rows' = [rows EXCEPT ![match[1]] = NoRow]
               /\ request' = [request EXCEPT ![c].matches = Tail(@)]
          ELSE Done(c) /\ UNCHANGED rows
    /\ UNCHANGED <<sim, tickTimer, starts, overtaken, failed>>

Stopped(c) ==
    /\ Stopping(c)
    /\ request[c].matches = <<>>
    /\ Replace(CreateSimState, c, NoRequest)
    /\ UNCHANGED <<tickTimer, rows, starts, failed>>

-----------------------------------------------------------------------------
(* The other requests, the timer, failures                                 *)

SetPaused(paused) ==
    /\ sim' = [sim EXCEPT !.paused = paused]
    /\ UNCHANGED <<tickTimer, rows, request, starts, overtaken, failed>>

\* Every tick makes a new state of the present one.
Replaced ==
    /\ request' = Detached
    /\ overtaken' = (overtaken \/ \E c \in Clients : Starting(c))
    /\ UNCHANGED <<sim, tickTimer, rows, starts, failed>>

\* A step ticks whether or not the simulation runs.
Step == Replaced

Tick == tickTimer /\ sim.running /\ ~sim.paused /\ Replaced

\* A new speed sets the timer of a running simulation again, also one that a
\* stop has cleared.
Speed ==
    /\ tickTimer' = (tickTimer \/ sim.running)
    /\ UNCHANGED <<sim, rows, request, starts, overtaken, failed>>

QueryFails(c) ==
    /\ ~Idle(c)
    /\ Done(c)
    /\ failed' = TRUE
    /\ UNCHANGED <<sim, tickTimer, rows, starts, overtaken>>

\* The process starts anew and deletes what simulations have left.
Restart ==
    /\ sim' = CreateSimState
    /\ tickTimer' = FALSE
    /\ rows' = [slot \in Slots |-> NoRow]
    /\ request' = [c \in Clients |-> NoRequest]
    /\ overtaken' = FALSE
    /\ failed' = FALSE
    /\ UNCHANGED starts

Next ==
    \/ \E c \in Clients :
         \/ Start(c) \/ CreateRow(c) \/ Started(c)
         \/ Stop(c) \/ DeleteRow(c) \/ Stopped(c) \/ QueryFails(c)
    \/ \E paused \in BOOLEAN : SetPaused(paused)
    \/ Step \/ Tick \/ Speed \/ Restart

Spec == Init /\ [][Next]_simVars

-----------------------------------------------------------------------------
(* Properties                                                              *)

\* The state is of the declared shape (SimState of types.ts).
TypeOK ==
    /\ sim.running \in BOOLEAN /\ sim.paused \in BOOLEAN
    /\ sim.matches \in Seq(MatchRecords)
    /\ rows \in [Slots -> RowIds \cup {NoRow}]
    /\ \A c \in Clients : request[c].matches \in Seq(MatchRecords)

Quiet == \A c \in Clients : Idle(c)

\* Unless a query fails or a state is replaced under a start that waits, the
\* rows between two requests are exactly those of the matches that are served,
\* however stops overlap: no row is left behind or deleted twice (setupSimMatches
\* and teardownSimMatches).
RowsFollowMatches ==
    ~failed /\ ~overtaken /\ Quiet =>
        /\ \A i \in DOMAIN sim.matches : RowOf(sim.matches[i])
        /\ \A slot \in Slots :
             rows[slot] # NoRow => \E i \in DOMAIN sim.matches : sim.matches[i][1] = slot

=============================================================================
