--------------------------- MODULE SshAgentProofs ---------------------------
(***************************************************************************)
(* What SshAgent promises, for any set of login shells.                    *)
(***************************************************************************)
EXTENDS SshAgent, TLAPS

\* Every variable keeps its type.
THEOREM TypeCorrect == Spec => []TypeOK
<1>1. Init => TypeOK
  BY ShellAssumption DEF Init, TypeOK, Content, Inode
<1>2. TypeOK /\ [Next]_vars => TypeOK'
  <2> SUFFICES ASSUME TypeOK, [Next]_vars PROVE TypeOK'
    OBVIOUS
  <2> USE DEF TypeOK, Content, Inode, At, Goto, InProgress
  <2>1. ASSUME NEW s \in Shell, Login(s) PROVE TypeOK'
    BY <2>1 DEF Login
  <2>2. ASSUME NEW s \in Shell, Truncate(s) PROVE TypeOK'
    BY <2>2 DEF Truncate
  <2>3. ASSUME NEW s \in Shell, Spawn(s) PROVE TypeOK'
    BY <2>3 DEF Spawn
  <2>4. ASSUME NEW s \in Shell, PrintAddress(s) PROVE TypeOK'
    BY <2>4 DEF PrintAddress
  <2>5. ASSUME NEW s \in Shell, SedRead(s) PROVE TypeOK'
    BY <2>5 DEF SedRead
  <2>6. ASSUME NEW s \in Shell, SedRename(s) PROVE TypeOK'
    BY <2>6 DEF SedRename
  <2>7. ASSUME NEW s \in Shell, Source(s) PROVE TypeOK'
    BY <2>7 DEF Source
  <2>8. ASSUME NEW s \in Shell, SshAdd(s) PROVE TypeOK'
    BY <2>8 DEF SshAdd
  <2>9. ASSUME NEW s \in Shell, Kill(s) PROVE TypeOK'
    BY <2>9 DEF Kill
  <2>10. CASE UNCHANGED vars
    BY <2>10 DEF vars
  <2> QED
    BY <2>1, <2>2, <2>3, <2>4, <2>5, <2>6, <2>7, <2>8, <2>9, <2>10 DEF Next
<1> QED
  BY <1>1, <1>2, PTL DEF Spec
-----------------------------------------------------------------------------
(* The address of the last boot *)

\* The last boot's address can be read only while nobody has opened the file,
\* and until then there is no agent that pgrep could see.
BootInv ==
  /\ data[path] = LastBoot =>
       alive = {} /\ \A s \in Shell : pc[s] \in {"out", "truncate"}
  /\ \A s \in Shell : buf[s] # LastBoot
  /\ FromThisBoot

\* No shell ever gets the address of an agent of the last boot.
THEOREM FromThisBootAlways == Spec => []FromThisBoot
<1> USE ShellAssumption
<1>1. Init => BootInv
  BY DEF Init, BootInv, FromThisBoot, Nothing, LastBoot, Inode
<1>2. TypeOK /\ BootInv /\ [Next]_vars => BootInv'
  <2> SUFFICES ASSUME TypeOK, BootInv, [Next]_vars PROVE BootInv'
    OBVIOUS
  <2> USE DEF TypeOK, BootInv, FromThisBoot, Content, Inode, At, Goto, LastBoot, Nothing
  <2>1. ASSUME NEW s \in Shell, Login(s) PROVE BootInv'
    BY <2>1 DEF Login, AgentSeen
  <2>2. ASSUME NEW s \in Shell, Truncate(s) PROVE BootInv'
    BY <2>2 DEF Truncate
  <2>3. ASSUME NEW s \in Shell, Spawn(s) PROVE BootInv'
    BY <2>3 DEF Spawn
  <2>4. ASSUME NEW s \in Shell, PrintAddress(s) PROVE BootInv'
    <3>1. data'[path'] # LastBoot
      BY <2>4 DEF PrintAddress
    <3> QED
      BY <2>4, <3>1 DEF PrintAddress
  <2>5. ASSUME NEW s \in Shell, SedRead(s) PROVE BootInv'
    BY <2>5 DEF SedRead
  <2>6. ASSUME NEW s \in Shell, SedRename(s) PROVE BootInv'
    BY <2>6 DEF SedRename
  <2>7. ASSUME NEW s \in Shell, Source(s) PROVE BootInv'
    BY <2>7 DEF Source
  <2>8. ASSUME NEW s \in Shell, SshAdd(s) PROVE BootInv'
    BY <2>8 DEF SshAdd
  <2>9. ASSUME NEW s \in Shell, Kill(s) PROVE BootInv'
    BY <2>9 DEF Kill
  <2>10. CASE UNCHANGED vars
    BY <2>10 DEF vars
  <2> QED
    BY <2>1, <2>2, <2>3, <2>4, <2>5, <2>6, <2>7, <2>8, <2>9, <2>10 DEF Next
<1>3. BootInv => FromThisBoot
  BY DEF BootInv
<1> QED
  BY <1>1, <1>2, <1>3, TypeCorrect, PTL DEF Spec
-----------------------------------------------------------------------------
(* A login that is not overlapped *)

\* From the moment it opens the file, a login that is not overlapped is the
\* only one that touches it, so the address it printed is the one it reads.
OwnInv ==
  /\ \A s \in InProgress \ raced : InProgress = {s}
  /\ \A s \in Shell \ raced :
       /\ pc[s] \in {"spawn", "print"} => fd[s] = path
       /\ pc[s] \in {"sed_read", "source_own"} => data[path] = s
       /\ pc[s] = "sed_rename" => buf[s] = s
       /\ pc[s] = "ssh_add" => env[s] = s

LEMMA OwnInvAlways == Spec => []OwnInv
<1>1. Init => OwnInv
  BY DEF Init, OwnInv, InProgress
<1>2. TypeOK /\ OwnInv /\ [Next]_vars => OwnInv'
  <2> SUFFICES ASSUME TypeOK, OwnInv, [Next]_vars PROVE OwnInv'
    OBVIOUS
  <2> USE DEF TypeOK, OwnInv, Content, Inode, At, Goto, InProgress
  <2>1. ASSUME NEW s \in Shell, Login(s) PROVE OwnInv'
    BY <2>1 DEF Login
  <2>2. ASSUME NEW s \in Shell, Truncate(s) PROVE OwnInv'
    BY <2>2 DEF Truncate
  <2>3. ASSUME NEW s \in Shell, Spawn(s) PROVE OwnInv'
    BY <2>3 DEF Spawn
  <2>4. ASSUME NEW s \in Shell, PrintAddress(s) PROVE OwnInv'
    BY <2>4 DEF PrintAddress
  <2>5. ASSUME NEW s \in Shell, SedRead(s) PROVE OwnInv'
    BY <2>5 DEF SedRead
  <2>6. ASSUME NEW s \in Shell, SedRename(s) PROVE OwnInv'
    BY <2>6 DEF SedRename
  <2>7. ASSUME NEW s \in Shell, Source(s) PROVE OwnInv'
    BY <2>7 DEF Source
  <2>8. ASSUME NEW s \in Shell, SshAdd(s) PROVE OwnInv'
    BY <2>8 DEF SshAdd
  <2>9. ASSUME NEW s \in Shell, Kill(s) PROVE OwnInv'
    BY <2>9 DEF Kill
  <2>10. CASE UNCHANGED vars
    BY <2>10 DEF vars
  <2> QED
    BY <2>1, <2>2, <2>3, <2>4, <2>5, <2>6, <2>7, <2>8, <2>9, <2>10 DEF Next
<1> QED
  BY <1>1, <1>2, TypeCorrect, PTL DEF Spec

\* A login that finds no agent and is not overlapped gets the agent it started,
\* whatever overlapping logins did before and will do after it.
THEOREM AloneGetsOwnAlways == Spec => []AloneGetsOwn
<1>1. OwnInv => AloneGetsOwn
  BY DEF OwnInv, AloneGetsOwn, At
<1> QED
  BY <1>1, OwnInvAlways, PTL
-----------------------------------------------------------------------------
(* Logins one at a time *)

\* When logins do not overlap: nobody starts an agent while one runs, a login
\* that has started one knows it is the only one, and the file names the agent
\* that runs whenever no login is busy writing the file.
AloneInv ==
  raced = {} =>
    /\ \A a, b \in alive : a = b
    /\ \A s \in Shell :
         /\ pc[s] \in {"truncate", "spawn"} => alive = {}
         /\ pc[s] \in {"print", "sed_read", "sed_rename", "source_own"} =>
              alive \subseteq {s} /\ (s \in alive \/ s \in bereft)
         /\ pc[s] = "source" => alive # {} \/ s \in bereft
    /\ (\A s \in Shell : pc[s] \notin {"print", "sed_read", "sed_rename"}) =>
         \A a \in alive : data[path] = a

LEMMA AloneInvAlways == Spec => []AloneInv
<1>1. Init => AloneInv
  BY DEF Init, AloneInv
<1>2. TypeOK /\ OwnInv /\ AloneInv /\ [Next]_vars => AloneInv'
  <2> SUFFICES ASSUME TypeOK, OwnInv, AloneInv, raced' = {}, [Next]_vars PROVE AloneInv'
    BY DEF AloneInv
  <2> USE DEF TypeOK, OwnInv, AloneInv, Content, Inode, At, Goto, InProgress
  <2>1. ASSUME NEW s \in Shell, Login(s) PROVE AloneInv'
    BY <2>1 DEF Login, AgentSeen
  <2>2. ASSUME NEW s \in Shell, Truncate(s) PROVE AloneInv'
    BY <2>2 DEF Truncate
  <2>3. ASSUME NEW s \in Shell, Spawn(s) PROVE AloneInv'
    BY <2>3 DEF Spawn
  <2>4. ASSUME NEW s \in Shell, PrintAddress(s) PROVE AloneInv'
    BY <2>4 DEF PrintAddress
  <2>5. ASSUME NEW s \in Shell, SedRead(s) PROVE AloneInv'
    BY <2>5 DEF SedRead
  <2>6. ASSUME NEW s \in Shell, SedRename(s) PROVE AloneInv'
    BY <2>6 DEF SedRename
  <2>7. ASSUME NEW s \in Shell, Source(s) PROVE AloneInv'
    BY <2>7 DEF Source
  <2>8. ASSUME NEW s \in Shell, SshAdd(s) PROVE AloneInv'
    BY <2>8 DEF SshAdd
  <2>9. ASSUME NEW s \in Shell, Kill(s) PROVE AloneInv'
    BY <2>9 DEF Kill
  <2>10. CASE UNCHANGED vars
    BY <2>10 DEF vars
  <2> QED
    BY <2>1, <2>2, <2>3, <2>4, <2>5, <2>6, <2>7, <2>8, <2>9, <2>10 DEF Next
<1> QED
  BY <1>1, <1>2, TypeCorrect, OwnInvAlways, PTL DEF Spec

\* When logins do not overlap there is never a second agent.
THEOREM OneAgentAlways == Spec => []OneAgent
<1>1. AloneInv => OneAgent
  BY DEF AloneInv, OneAgent
<1> QED
  BY <1>1, AloneInvAlways, PTL

\* When logins do not overlap, a shell that reads the file gets an agent that
\* runs, unless one was killed during its login.
THEOREM ConnectedAlways == Spec => Connected
<1>1. TypeOK /\ OwnInv /\ AloneInv /\ [Next]_vars =>
        [\A s \in Shell : raced = {} /\ Source(s) => env'[s] \in alive \/ s \in bereft]_vars
  <2> SUFFICES ASSUME TypeOK, OwnInv, AloneInv, raced = {},
                      NEW s \in Shell, Source(s), s \notin bereft
               PROVE  env'[s] \in alive
    OBVIOUS
  <2> USE DEF TypeOK, OwnInv, AloneInv, At, InProgress
  <2>1. InProgress = {s}
    BY DEF Source
  <2>2. env'[s] = data[path]
    BY DEF Source, Content
  <2>3. CASE pc[s] = "source"
    BY <2>1, <2>2, <2>3
  <2>4. CASE pc[s] = "source_own"
    BY <2>1, <2>2, <2>4
  <2> QED
    BY <2>3, <2>4 DEF Source
<1> QED
  BY <1>1, TypeCorrect, OwnInvAlways, AloneInvAlways, PTL DEF Spec, Connected
=============================================================================
