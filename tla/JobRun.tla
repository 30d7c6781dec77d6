------------------------------- MODULE JobRun -------------------------------
(***************************************************************************)
(* The runs of jobs: the scheduler starts them and so does an              *)
(* administrator, also while another run of the same job is under way.     *)
(* A run starts one goroutine for each of its assets; they send their      *)
(* messages over an unbuffered channel, and the run receives as many as it *)
(* has assets and writes them as one log.  Meanwhile assets and            *)
(* credentials may be deleted.                                             *)
(***************************************************************************)
EXTENDS Naturals, FiniteSets

CONSTANTS
    Checks,     \* runs of CheckAssetStatusJob
    Shells,     \* runs of ShellJob on assets
    Locals,     \* runs of ShellJob on the server itself
    Assets,
    Credential, \* assets that have their secret in a credential
    Proxied     \* assets that are reached through a gateway or a SOCKS5 proxy

Runs == Checks \cup Shells \cup Locals

ASSUME RunsAssumption ==
    /\ Checks \cap Shells = {} /\ (Checks \cup Shells) \cap Locals = {}
    /\ Credential \subseteq Assets /\ Proxied \subseteq Assets
    /\ IsFiniteSet(Assets)

VARIABLES
    there,  \* assets that have a row
    known,  \* assets whose credential has a row
    active, \* the assets whose row says they are active
    at,     \* where each run is
    listed, \* the assets it found
    left,   \* those it has not started a goroutine for
    worker, \* the goroutines of each run
    count,  \* how many messages were received
    told,   \* the assets they were about
    log,    \* what the log of a run tells
    up      \* is the server up?

rows     == <<there, known, active>>
run      == <<at, listed, left, worker, count, told, log>>
runsVars == <<rows, run, up>>

RunsTypeOK ==
    /\ there \in SUBSET Assets
    /\ known \in SUBSET Assets
    /\ active \in SUBSET Assets
    /\ at \in [Runs -> {"idle", "start", "stuck", "receive", "exec", "touch",
                        "log", "done", "unread", "lost"}]
    /\ listed \in [Runs -> SUBSET Assets]
    /\ left \in [Runs -> SUBSET Assets]
    /\ worker \in [Runs -> [Assets -> {"none", "busy", "sending", "sent"}]]
    /\ count \in [Runs -> Nat]
    /\ told \in [Runs -> SUBSET Assets]
    /\ log \in [Runs -> SUBSET Assets]
    /\ up \in BOOLEAN

RunsInit ==
    /\ there = Assets /\ known = Assets /\ active = {}
    /\ at = [r \in Runs |-> "idle"]
    /\ listed = [r \in Runs |-> {}]
    /\ left = [r \in Runs |-> {}]
    /\ worker = [r \in Runs |-> [x \in Assets |-> "none"]]
    /\ count = [r \in Runs |-> 0]
    /\ told = [r \in Runs |-> {}]
    /\ log = [r \in Runs |-> {}]
    /\ up = TRUE

Move(r, to) == at' = [at EXCEPT ![r] = to]

-----------------------------------------------------------------------------
(* The run.                                                                *)

\* A shell whose metadata does not parse ends there, and leaves no log.
Begins(r) == IF r \in Checks THEN {"start"} ELSE {"start", "unread"}

\* all assets, or those the job names
List(r) ==
    /\ up /\ at[r] = "idle" /\ r \notin Locals
    /\ \E S \in SUBSET there :
         /\ listed' = [listed EXCEPT ![r] = S]
         /\ left' = [left EXCEPT ![r] = S]
         /\ \E to \in IF S = {} THEN {"done"} ELSE Begins(r) : Move(r, to)
    /\ UNCHANGED <<rows, worker, count, told, log, up>>

\* what a shell needs to know; a check asks nothing more
Found(r, x) == r \in Checks \/ (x \in there /\ (x \in Credential => x \in known))

Start(r, x) ==
    /\ at[r] = "start" /\ x \in left[r]
    /\ Found(r, x)
    /\ left' = [left EXCEPT ![r] = @ \ {x}]
    /\ worker' = [worker EXCEPT ![r][x] = "busy"]
    /\ UNCHANGED <<rows, at, listed, count, told, log, up>>

\* the run sends the failure over its channel, which only itself receives from
LookupFails(r, x) ==
    /\ at[r] = "start" /\ x \in left[r]
    /\ ~Found(r, x)
    /\ Move(r, "stuck")
    /\ UNCHANGED <<rows, listed, left, worker, count, told, log, up>>

Started(r) ==
    /\ at[r] = "start" /\ left[r] = {}
    /\ Move(r, "receive")
    /\ UNCHANGED <<rows, listed, left, worker, count, told, log, up>>

\* Mutant: the loop ends one message early.
EnoughEarly(r) == count[r] + 1 >= Cardinality(listed[r])

Enough(r) == count[r] >= Cardinality(listed[r])

Receive(r, x) ==
    /\ at[r] = "receive" /\ ~Enough(r)
    /\ worker[r][x] = "sending"
    /\ worker' = [worker EXCEPT ![r][x] = "sent"]
    /\ count' = [count EXCEPT ![r] = @ + 1]
    /\ told' = [told EXCEPT ![r] = @ \cup {x}]
    /\ UNCHANGED <<rows, at, listed, left, log, up>>

Received(r) ==
    /\ at[r] = "receive" /\ Enough(r)
    /\ Move(r, "touch")
    /\ UNCHANGED <<rows, listed, left, worker, count, told, log, up>>

\* UpdateLastUpdatedById
Touch(r) ==
    /\ at[r] = "touch"
    /\ Move(r, "log")
    /\ UNCHANGED <<rows, listed, left, worker, count, told, log, up>>

WriteLog(r) ==
    /\ at[r] = "log"
    /\ log' = [log EXCEPT ![r] = told[r]]
    /\ Move(r, "done")
    /\ UNCHANGED <<rows, listed, left, worker, count, told, up>>

\* the shell of the server itself, if its metadata parses
Exec(r) ==
    /\ up /\ r \in Locals /\ at[r] = "idle"
    /\ \E to \in {"exec", "unread"} : Move(r, to)
    /\ UNCHANGED <<rows, listed, left, worker, count, told, log, up>>

ExecReturns(r) ==
    /\ at[r] = "exec"
    /\ Move(r, "touch")
    /\ UNCHANGED <<rows, listed, left, worker, count, told, log, up>>

-----------------------------------------------------------------------------
(* The goroutines.                                                         *)

\* Mutant: nothing is told of an asset that did not answer.
AfterActive(alive) == IF alive THEN "sending" ELSE "none"

After(alive) == "sending"

\* CheckStatus has returned: the row, if it is still there, and then the channel
Checked(r, x) ==
    /\ r \in Checks /\ worker[r][x] = "busy"
    /\ \E alive \in BOOLEAN :
         /\ active' = IF alive /\ x \in there THEN active \cup {x} ELSE active \ {x}
         /\ worker' = [worker EXCEPT ![r][x] = After(alive)]
    /\ UNCHANGED <<there, known, at, listed, left, count, told, log, up>>

\* the command has returned, or it could not be given
Executed(r, x) ==
    /\ r \in Shells /\ worker[r][x] = "busy"
    /\ worker' = [worker EXCEPT ![r][x] = "sending"]
    /\ UNCHANGED <<rows, at, listed, left, count, told, log, up>>

-----------------------------------------------------------------------------
(* What happens meanwhile.                                                 *)

DeleteAsset(x) ==
    /\ up /\ x \in there
    /\ there' = there \ {x}
    /\ active' = active \ {x}
    /\ UNCHANGED <<known, run, up>>

DeleteCredential(x) ==
    /\ up /\ x \in known \cap Credential
    /\ known' = known \ {x}
    /\ UNCHANGED <<there, active, run, up>>

\* the runs are lost, what they wrote is not
LoseRuns ==
    /\ up
    /\ up' = FALSE
    /\ at' = [r \in Runs |-> IF at[r] \in {"idle", "done", "unread"} THEN at[r]
                           ELSE "lost"]
    /\ worker' = [r \in Runs |-> [x \in Assets |-> "none"]]
    /\ UNCHANGED <<rows, listed, left, count, told, log>>

-----------------------------------------------------------------------------
Step(r) ==
    \/ \E x \in Assets : Start(r, x) \/ LookupFails(r, x) \/ Receive(r, x)
    \/ Started(r) \/ Received(r) \/ Touch(r) \/ WriteLog(r)

RunsNext ==
    \/ \E r \in Runs : List(r) \/ Exec(r) \/ ExecReturns(r) \/ Step(r)
    \/ \E r \in Runs, x \in Assets : Checked(r, x) \/ Executed(r, x)
    \/ \E x \in Assets : DeleteAsset(x) \/ DeleteCredential(x)
    \/ LoseRuns

\* Goroutines run, and the check of an asset that is dialed directly ends: the
\* dial has a timeout.  The handshakes of a gateway and of a SOCKS5 proxy have
\* none, and a command may take for ever.
Fairness ==
    /\ \A r \in Runs : WF_runsVars(Step(r))
    /\ \A r \in Checks, x \in Assets \ Proxied : WF_runsVars(Checked(r, x))

RunsSpec == RunsInit /\ [][RunsNext]_runsVars

FairSpec == RunsSpec /\ Fairness

-----------------------------------------------------------------------------
(* Properties.                                                             *)

\* A run that ends tells of every asset it found in its log and leaves no
\* goroutine behind that waits to send; or it could not read what to do, and then
\* it has started none.
LogIsComplete ==
    \A r \in Runs :
        /\ at[r] = "done" =>
              /\ log[r] = listed[r]
              /\ \A x \in Assets : worker[r][x] \in {"none", "sent"}
        /\ at[r] = "unread" => \A x \in Assets : worker[r][x] = "none"

\* What a run has counted is what its goroutines have sent, once for each asset
\* it started one for, so that it logs all of them.
RunInv ==
    /\ RunsTypeOK
    /\ \A r \in Runs :
         /\ left[r] \subseteq listed[r]
         /\ count[r] = Cardinality(told[r])
         /\ told[r] \subseteq listed[r] \ left[r]
         /\ at[r] \in {"idle", "exec"} => listed[r] = {} /\ told[r] = {}
         /\ at[r] = "idle" => log[r] = {}
         /\ at[r] = "unread" => left[r] = listed[r]
         /\ at[r] = "receive" => left[r] = {}
         /\ at[r] \in {"touch", "log"} => told[r] = listed[r]
         /\ up => \A x \in Assets :
              /\ worker[r][x] # "none" <=> x \in listed[r] \ left[r]
              /\ worker[r][x] = "sent" <=> x \in told[r]
         /\ ~up => /\ at[r] \in {"idle", "done", "unread", "lost"}
                   /\ \A x \in Assets : worker[r][x] = "none"
    /\ LogIsComplete

\* A check of assets that are dialed directly is logged in the end, whatever is
\* deleted meanwhile and whatever else runs, if the server stays up.  (One asset
\* behind a gateway or a proxy that does not answer keeps it waiting for ever.)
CheckEnds ==
    \A r \in Checks :
        at[r] = "start" /\ listed[r] \cap Proxied = {} ~>
            at[r] \in {"done", "lost"}

-----------------------------------------------------------------------------
(* Where the code and what the repository says of it part.                 *)

\* "the shell of the asset failed: the data could not be queried": a run that
\* could not look an asset up says so in its log.
FailureIsLogged ==
    \A r \in Shells : at[r] = "stuck" ~> at[r] \in {"done", "lost"}
=============================================================================
