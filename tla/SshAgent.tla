------------------------------ MODULE SshAgent ------------------------------
(***************************************************************************)
(* How a login shell finds the user's ssh agent: dot/my.bashrc.sh, lines   *)
(* 43 to 51 (dot/mygg8.bashrc, lines 125 to 133, is the same).  The first  *)
(* login starts an agent and leaves its address in ~/.ssh/ssh-add-latest;  *)
(* later logins see the process with pgrep and read the file.  Nothing     *)
(* locks the file, and nothing checks that the address in it is that of    *)
(* the process pgrep saw.                                                  *)
(*                                                                         *)
(* Assumed: no other program starts an ssh-agent for the user.  pgrep      *)
(* would see any, and the script would take the address in the file for    *)
(* its.                                                                    *)
(*                                                                         *)
(* Each shell starts at most one agent, which is named by that shell.  A   *)
(* file is an inode: a redirection truncates and writes the inode that was *)
(* there when the shell opened it, while sed -i puts a new inode in the    *)
(* file's place.  The inode that sed -i makes for shell s is named s.      *)
(***************************************************************************)
EXTENDS FiniteSets

CONSTANTS
  Shell       \* login shells since the machine was booted

\* What the file may say instead of an agent: nothing (it is empty or not
\* there), or the address of an agent of the last boot.
Nothing == "nothing"
LastBoot == "last boot"
ASSUME ShellAssumption == {Nothing, LastBoot, "first"} \cap Shell = {}

Content == Shell \cup {Nothing, LastBoot}
Inode == Shell \cup {"first"}

VARIABLES
  pc,        \* the command each shell runs next
  path,      \* the inode that is ~/.ssh/ssh-add-latest
  data,      \* the address in each inode
  fd,        \* the inode the output of the shell's ssh-agent goes to
  buf,       \* what the shell's sed has read
  env,       \* SSH_AUTH_SOCK of each shell
  alive,     \* the agents that run
  keyed,     \* those that hold the user's key
  raced,     \* history: logins that were in progress beside another one
  bereft     \* history: logins during which an agent was killed

vars == <<pc, path, data, fd, buf, env, alive, keyed, raced, bereft>>

InProgress == {s \in Shell : pc[s] \notin {"out", "done"}}
At(s, label) == pc[s] = label
Goto(s, label) == pc' = [pc EXCEPT ![s] = label]

Init ==
  /\ pc = [s \in Shell |-> "out"]
  /\ path = "first"
  /\ data \in {[i \in Inode |-> c] : c \in {Nothing, LastBoot}}
  /\ fd = [s \in Shell |-> "first"]
  /\ buf = [s \in Shell |-> Nothing]
  /\ env = [s \in Shell |-> Nothing]
  /\ alive = {} /\ keyed = {} /\ raced = {} /\ bereft = {}
-----------------------------------------------------------------------------
\* What pgrep finds: an agent, or an ssh-agent that has not printed yet.
AgentSeen == alive # {} \/ \E s \in Shell : At(s, "print")

\* Mutant: pgrep is not asked.
Login_NoPgrep(s) ==
  /\ At(s, "out")
  /\ Goto(s, "truncate")
  /\ raced' = IF InProgress = {} THEN raced ELSE raced \cup InProgress \cup {s}
  /\ UNCHANGED <<path, data, fd, buf, env, alive, keyed, bereft>>

\* Line 44.
Login(s) ==
  /\ At(s, "out")
  /\ Goto(s, IF AgentSeen THEN "source" ELSE "truncate")
  /\ raced' = IF InProgress = {} THEN raced ELSE raced \cup InProgress \cup {s}
  /\ UNCHANGED <<path, data, fd, buf, env, alive, keyed, bereft>>

\* Mutant: the file is opened without being emptied (>> in place of >).
Truncate_Append(s) ==
  /\ At(s, "truncate")
  /\ Goto(s, "spawn")
  /\ fd' = [fd EXCEPT ![s] = path]
  /\ UNCHANGED <<path, data, buf, env, alive, keyed, raced, bereft>>

\* Line 47: the shell empties the file before it starts ssh-agent, ...
Truncate(s) ==
  /\ At(s, "truncate")
  /\ Goto(s, "spawn")
  /\ fd' = [fd EXCEPT ![s] = path]
  /\ data' = [data EXCEPT ![path] = Nothing]
  /\ UNCHANGED <<path, buf, env, alive, keyed, raced, bereft>>

\* ... which puts the agent into the background ...
Spawn(s) ==
  /\ At(s, "spawn")
  /\ Goto(s, "print")
  /\ alive' = alive \cup {s}
  /\ UNCHANGED <<path, data, fd, buf, env, keyed, raced, bereft>>

\* ... and prints its address.
PrintAddress(s) ==
  /\ At(s, "print")
  /\ Goto(s, "sed_read")
  /\ data' = [data EXCEPT ![fd[s]] = s]
  /\ UNCHANGED <<path, fd, buf, env, alive, keyed, raced, bereft>>

\* Line 48: sed -i reads the file and renames what it wrote over it.  That
\* it comments out the echo does not change the address.
SedRead(s) ==
  /\ At(s, "sed_read")
  /\ Goto(s, "sed_rename")
  /\ buf' = [buf EXCEPT ![s] = data[path]]
  /\ UNCHANGED <<path, data, fd, env, alive, keyed, raced, bereft>>

\* Mutant: sed without -i leaves an empty file.
SedRename_Lost(s) ==
  /\ At(s, "sed_rename")
  /\ Goto(s, "source_own")
  /\ path' = s
  /\ data' = [data EXCEPT ![s] = Nothing]
  /\ UNCHANGED <<fd, buf, env, alive, keyed, raced, bereft>>

SedRename(s) ==
  /\ At(s, "sed_rename")
  /\ Goto(s, "source_own")
  /\ path' = s
  /\ data' = [data EXCEPT ![s] = buf[s]]
  /\ UNCHANGED <<fd, buf, env, alive, keyed, raced, bereft>>

\* Lines 45 and 49.
Source(s) ==
  /\ pc[s] \in {"source", "source_own"}
  /\ Goto(s, IF At(s, "source") THEN "done" ELSE "ssh_add")
  /\ env' = [env EXCEPT ![s] = data[path]]
  /\ UNCHANGED <<path, data, fd, buf, alive, keyed, raced, bereft>>

\* Mutant: ssh-add believes the file and does not look for the agent.
SshAdd_Blind(s) ==
  /\ At(s, "ssh_add")
  /\ Goto(s, "done")
  /\ keyed' \in {keyed, keyed \cup {env[s]}}
  /\ UNCHANGED <<path, data, fd, buf, env, alive, raced, bereft>>

\* Line 50: the user types the passphrase, or does not.
SshAdd(s) ==
  /\ At(s, "ssh_add")
  /\ Goto(s, "done")
  /\ keyed' \in {keyed, keyed \cup ({env[s]} \cap alive)}
  /\ UNCHANGED <<path, data, fd, buf, env, alive, raced, bereft>>

\* The user kills an agent, or it ends.
Kill(a) ==
  /\ a \in alive
  /\ alive' = alive \ {a}
  /\ keyed' = keyed \ {a}
  /\ bereft' = bereft \cup InProgress
  /\ UNCHANGED <<pc, path, data, fd, buf, env, raced>>

Next ==
  \E s \in Shell :
    \/ Login(s) \/ Truncate(s) \/ Spawn(s) \/ PrintAddress(s)
    \/ SedRead(s) \/ SedRename(s) \/ Source(s) \/ SshAdd(s)
    \/ Kill(s)

Spec == Init /\ [][Next]_vars
-----------------------------------------------------------------------------
\* Type invariant.
TypeOK ==
  /\ pc \in [Shell -> {"out", "truncate", "spawn", "print", "sed_read", "sed_rename",
                       "source", "source_own", "ssh_add", "done"}]
  /\ path \in Inode
  /\ data \in [Inode -> Content]
  /\ fd \in [Shell -> Inode]
  /\ buf \in [Shell -> Content]
  /\ env \in [Shell -> Content]
  /\ keyed \subseteq alive /\ alive \subseteq Shell
  /\ raced \subseteq Shell /\ bereft \subseteq Shell

\* As long as no two logins have overlapped, the user never has two agents.
OneAgent == raced = {} => \A a, b \in alive : a = b

\* As long as no two logins have overlapped, every login is connected to an agent
\* that runs, however often agents were killed and started before; the only
\* exception is an agent that is killed during the login itself.
Connected ==
  [][\A s \in Shell : raced = {} /\ Source(s) => env'[s] \in alive \/ s \in bereft]_vars

\* Even when logins overlap, no shell gets the address of an agent of the last
\* boot: the file is emptied before there is an agent for pgrep to see, if all
\* agents are of this script.
FromThisBoot == \A s \in Shell : env[s] # LastBoot

\* Whatever earlier logins have done to each other and to the file, a login
\* that finds no agent and is not overlapped itself gets the agent it started.
AloneGetsOwn == \A s \in Shell :
  At(s, "ssh_add") /\ s \notin raced => env[s] = s
=============================================================================
