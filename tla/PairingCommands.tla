--------------------------- MODULE PairingCommands ---------------------------
(***************************************************************************)
(* Who drives the pairing endpoint: the daemon's dashboard (crates/pair-ui,*)
(* /api/pairing/invite and /respond) or the commands `openpair-node invite`*)
(* and `openpair-node join` (crates/pair-node/src/main.rs).  A command is  *)
(* a process of its own with its own endpoint: it starts from trusted/,    *)
(* and when it returns its maps and pins are gone with it, whatever its    *)
(* handlers were doing.                                                    *)
(***************************************************************************)
EXTENDS PairingNode

CONSTANTS
    Scenarios,   \* which invites there are, who drives them, and the faults
    MaxPolls     \* polls of is_clustered before `invite` times out

ASSUME CommandsAssumption ==
    /\ Scenarios \subseteq [invites : SUBSET Invites, commands : BOOLEAN,
                            faults : BOOLEAN]
    /\ MaxPolls \in Nat \ {0}

VARIABLES
    scenario,   \* fixed at the start
    icmd,       \* the `invite` command of each invite
    polls,      \* the polls it made
    jcmd        \* the `join` command of each node and the invite it took

commands == <<icmd, polls, jcmd>>
cvars == <<vars, scenario, commands>>

InviteStates == {"off", "run", "joined", "timeout", "error", "killed"}
JoinStates == {"off", "wait", "prompt", "submit", "joined", "already", "error",
               "killed"}
JoinCmd(st, i) == [st |-> st, invite |-> i]

InviteRunning(i) == icmd[i] = "run"
JoinRunning(n) == jcmd[n].st \in {"wait", "prompt", "submit"}
Busy(n) == JoinRunning(n) \/ \E i \in Invites : Inviter[i] = n /\ InviteRunning(i)

CInit ==
    /\ Init
    /\ scenario \in Scenarios
    /\ icmd = [i \in Invites |-> "off"]
    /\ polls = [i \in Invites |-> 0]
    /\ jcmd = [n \in Nodes |-> JoinCmd("off", None)]

-----------------------------------------------------------------------------
(* The dashboard.                                                          *)

DashboardInvite(i) ==
    /\ ~scenario.commands
    /\ CreateInvite(i)
    /\ UNCHANGED <<scenario, commands>>

\* `respond` takes any invite id, also one that is no longer listed.
DashboardRespond(i, noob) ==
    /\ ~scenario.commands
    /\ SubmitPin(i, noob)
    /\ UNCHANGED <<scenario, commands>>

-----------------------------------------------------------------------------
(* run_invite.  Its process is the inviter's endpoint.                     *)

\* The process returns from main; the runtime lets a write that it is in the
\* middle of end first, so no file is torn.
InviteExits(i, outcome) ==
    /\ icmd' = [icmd EXCEPT ![i] = outcome]
    /\ Restart(Inviter[i], {})

InviteRuns(i) ==
    /\ scenario.commands
    /\ icmd[i] = "off" /\ ~Busy(Inviter[i])
    /\ CreateInvite(i)
    /\ icmd' = [icmd EXCEPT ![i] = "run"]
    /\ UNCHANGED <<scenario, polls, jcmd>>

\* create_invite failed: the `?` ends the process.
InviteFails(i) ==
    /\ InviteRunning(i) /\ create[i] \in {"rejected", "failed"}
    /\ InviteExits(i, "error")
    /\ UNCHANGED <<scenario, crashes, polls, jcmd>>

\* Reports every end of the wait as a joined peer.
InvitePolls_trusts_timeout(i) ==
    /\ InviteRunning(i) /\ create[i] = "made"
    /\ IF polls[i] = MaxPolls \/ clustered[Inviter[i]]
       THEN InviteExits(i, "joined") /\ UNCHANGED <<crashes, polls>>
       ELSE /\ polls' = [polls EXCEPT ![i] = @ + 1]
            /\ UNCHANGED <<vars, icmd>>
    /\ UNCHANGED <<scenario, jcmd>>

\* Polls without end.
InvitePolls_forever(i) ==
    /\ InviteRunning(i) /\ create[i] = "made"
    /\ clustered[Inviter[i]]
    /\ InviteExits(i, "joined")
    /\ UNCHANGED <<scenario, crashes, polls, jcmd>>

\* One turn of the wait: is_clustered is read, then it sleeps; after the last
\* sleep the command gives up without another look.
InvitePolls(i) ==
    /\ InviteRunning(i) /\ create[i] = "made"
    /\ \/ /\ polls[i] < MaxPolls /\ clustered[Inviter[i]]
          /\ InviteExits(i, "joined") /\ UNCHANGED <<crashes, polls>>
       \/ /\ polls[i] < MaxPolls /\ ~clustered[Inviter[i]]
          /\ polls' = [polls EXCEPT ![i] = @ + 1]
          /\ UNCHANGED <<vars, icmd>>
       \/ /\ polls[i] = MaxPolls
          /\ InviteExits(i, "timeout") /\ UNCHANGED <<crashes, polls>>
    /\ UNCHANGED <<scenario, jcmd>>

-----------------------------------------------------------------------------
(* run_join.  Its process is the joiner's endpoint.                        *)

JoinExits(n, outcome) ==
    /\ jcmd' = [jcmd EXCEPT ![n].st = outcome]
    /\ Restart(n, {})

\* The endpoint that served so far, if any, makes room for the command's.
JoinRuns(n) ==
    /\ scenario.commands
    /\ n \in {Joiner[i] : i \in scenario.invites}
    /\ jcmd[n].st = "off" /\ ~Busy(n)
    /\ jcmd' = [jcmd EXCEPT ![n].st = "wait"]
    /\ Restart(n, {})
    /\ UNCHANGED <<scenario, crashes, icmd, polls>>

\* One turn of the wait: clustered already, or the first pending invite.
JoinPolls(n) ==
    /\ jcmd[n].st = "wait"
    /\ \/ /\ clustered[n]
          /\ JoinExits(n, "already")
          /\ UNCHANGED crashes
       \/ /\ ~clustered[n]
          /\ \E i \in pending : /\ Joiner[i] = n
                                /\ jcmd' = [jcmd EXCEPT ![n] = JoinCmd("prompt", i)]
          /\ UNCHANGED vars
    /\ UNCHANGED <<scenario, icmd, polls>>

\* The user enters a PIN and submit_pin takes it.
JoinEnters(n, noob) ==
    /\ jcmd[n].st = "prompt"
    /\ SubmitPin(jcmd[n].invite, noob)
    /\ jcmd' = [jcmd EXCEPT ![n].st = "submit"]
    /\ UNCHANGED <<scenario, icmd, polls>>

\* The input is no PIN, or the session is gone by now: the `?` ends the
\* process.
JoinRefused(n) ==
    /\ jcmd[n].st = "prompt"
    /\ JoinExits(n, "error")
    /\ UNCHANGED <<scenario, crashes, icmd, polls>>

\* Reports success whatever submit_pin returned.
JoinEnds_ignores_error(n) ==
    /\ jcmd[n].st = "submit" /\ submit[jcmd[n].invite] \in {"done", "failed"}
    /\ JoinExits(n, "joined")
    /\ UNCHANGED <<scenario, crashes, icmd, polls>>

\* submit_pin returned.
JoinEnds(n) ==
    /\ jcmd[n].st = "submit" /\ submit[jcmd[n].invite] \in {"done", "failed"}
    /\ JoinExits(n, IF submit[jcmd[n].invite] = "done" THEN "joined" ELSE "error")
    /\ UNCHANGED <<scenario, crashes, icmd, polls>>

-----------------------------------------------------------------------------
(* Faults, in the scenarios that have them.                                *)

\* A crash takes the commands of the node with it.
NodeCrash(n) ==
    /\ scenario.faults
    /\ Crash(n)
    /\ icmd' = [i \in Invites |->
          IF Inviter[i] = n /\ InviteRunning(i) THEN "killed" ELSE icmd[i]]
    /\ jcmd' = IF JoinRunning(n) THEN [jcmd EXCEPT ![n].st = "killed"] ELSE jcmd
    /\ UNCHANGED <<scenario, polls>>

\* Foreign signals and broken connections; only the dashboard's calls have a
\* client that can go away.
Fault(i) ==
    /\ scenario.faults
    /\ \/ CancelJoiner(i) \/ Decline(i)
       \/ BreakInitial(i) \/ BreakCompletion(i)
       \/ DropInitial(i) \/ DropCompletion(i)
       \/ ~scenario.commands /\ (AbandonCreate(i) \/ AbandonSubmit(i))
    /\ UNCHANGED <<scenario, commands>>

-----------------------------------------------------------------------------
\* What a node does by itself about invite i.
Task(i) == Step(i) /\ UNCHANGED <<scenario, commands>>
InviteTask(i) == InviteFails(i) \/ InvitePolls(i)
JoinTask(n) == JoinPolls(n) \/ JoinEnds(n)

CNext ==
    \/ \E i \in scenario.invites :
          \/ Task(i) \/ Fault(i)
          \/ DashboardInvite(i)
          \/ \E noob \in Noobs : DashboardRespond(i, noob)
          \/ InviteRuns(i) \/ InviteTask(i)
    \/ \E n \in Nodes :
          \/ JoinRuns(n) \/ JoinTask(n) \/ JoinRefused(n) \/ NodeCrash(n)
          \/ \E noob \in Noobs : JoinEnters(n, noob)

\* A task that can run eventually runs (the tokio scheduler is fair, no lock
\* is held across a network wait), a sleep ends, and a connection eventually
\* delivers or breaks; users, other implementations and faults promise
\* nothing.
Fairness ==
    /\ \A i \in Invites : WF_cvars(Task(i)) /\ WF_cvars(InviteTask(i))
    /\ \A n \in Nodes : WF_cvars(JoinTask(n))
CSpec == CInit /\ [][CNext]_cvars /\ Fairness

-----------------------------------------------------------------------------
(* Properties.                                                             *)

\* create_invite and submit_pin return: no response sequence keeps either in
\* its loop, and no task waits for another one for ever.
CallsReturn ==
    \A i \in Invites :
        /\ create[i] = "call" ~> create[i] # "call"
        /\ submit[i] = "call" ~> submit[i] \in {"done", "failed", "crashed"}

\* `invite` ends, whatever the joiner does, and `join` ends once its PIN was
\* taken: run_invite's wait is bounded, run_join's submit_pin returns.
CommandsReturn ==
    /\ \A i \in Invites : InviteRunning(i) ~> ~InviteRunning(i)
    /\ \A n \in Nodes : jcmd[n].st = "submit" ~> jcmd[n].st # "submit"

\* Without faults a wrong PIN tears both sides down once submit_pin returned:
\* no session and no pending entry is left on either node.
WrongPinTearsDown ==
    ~scenario.faults => \A i \in Invites :
        verdict[i] = "incorrect-pin" /\ submit[i] = "failed" =>
            i \notin inviters \cup joiners \cup pending

\* Without faults, the right PIN entered after create_invite returned makes
\* both nodes pin each other.
RightPinPairs ==
    \A i \in Invites :
        ( /\ ~scenario.faults /\ ~scenario.commands
          /\ create[i] = "made" /\ submit[i] = "call"
          /\ cconn[i] = Request("completion", None)
          /\ jsess[i].noob = isess[i].noob )
        ~> (Inviter[i] \in pins[Joiner[i]] /\ Joiner[i] \in pins[Inviter[i]])

\* A `join` that reports success lasts: with cluster directories whose writes
\* succeed, both nodes trust each other from then on, through the end of both
\* commands and every crash.
JoinLasts ==
    \A n \in Nodes :
        LET i == jcmd[n].invite IN
        jcmd[n].st = "joined" /\ {n, Inviter[i]} \subseteq Persistent \ DiskFails
        => Inviter[i] \in pins[n] /\ n \in pins[Inviter[i]]

\* "Peer joined and its certificate is pinned. Pairing complete."
\* (main.rs:414): an `invite` that reports success has pinned the node it
\* invited.
InviteReportTrue ==
    \A i \in Invites : icmd[i] = "joined" => ipaired[i] # {}
=============================================================================
