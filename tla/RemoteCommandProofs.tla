------------------------ MODULE RemoteCommandProofs ------------------------
(***************************************************************************)
(* Proofs about module RemoteCommand, for any clients and commands, any    *)
(* size of the receive buffer and any bounds on what the network does.     *)
(***************************************************************************)
EXTENDS RemoteCommand, SequenceTheorems, FiniteSetTheorems, TLAPS

(* Sequences *)

LEMMA RemoveAtFacts ==
  ASSUME NEW S, NEW s \in Seq(S), NEW k \in 1..Len(s)
  PROVE  /\ RemoveAt(s, k) \in Seq(S)
         /\ Len(RemoveAt(s, k)) = Len(s) - 1
         /\ \A j \in 1..Len(s)-1 : RemoveAt(s, k)[j] = IF j < k THEN s[j] ELSE s[j+1]
<1> DEFINE left == SubSeq(s, 1, k-1)
           right == SubSeq(s, k+1, Len(s))
<1>1. Len(s) \in Nat /\ \A j \in 1..Len(s) : s[j] \in S
  BY LenProperties, ElementOfSeq
<1>2. /\ left \in Seq(S) /\ Len(left) = k-1
      /\ \A j \in 1..k-1 : left[j] = s[j]
  <2>1. \A j \in 1..k-1 : s[j] \in S
    BY <1>1
  <2>2. /\ left \in Seq(S)
        /\ Len(left) = IF 1 <= k-1 THEN k-1-1+1 ELSE 0
        /\ \A j \in 1..(k-1-1+1) : left[j] = s[1+j-1]
    BY <2>1, SubSeqProperties, <1>1
  <2>3. QED
    BY <2>2, <1>1
<1>3. /\ right \in Seq(S) /\ Len(right) = Len(s)-k
      /\ \A j \in 1..Len(s)-k : right[j] = s[k+j]
  <2>1. \A j \in k+1..Len(s) : s[j] \in S
    BY <1>1
  <2>2. /\ right \in Seq(S)
        /\ Len(right) = IF k+1 <= Len(s) THEN Len(s)-(k+1)+1 ELSE 0
        /\ \A j \in 1..(Len(s)-(k+1)+1) : right[j] = s[k+1+j-1]
    BY <2>1, SubSeqProperties, <1>1
  <2>3. QED
    BY <2>2, <1>1
<1>4. /\ RemoveAt(s, k) \in Seq(S) /\ Len(RemoveAt(s, k)) = Len(left) + Len(right)
      /\ \A j \in 1..Len(left)+Len(right) :
           RemoveAt(s, k)[j] = IF j <= Len(left) THEN left[j] ELSE right[j-Len(left)]
  BY <1>2, <1>3, ConcatProperties DEF RemoveAt
<1> HIDE DEF left, right
<1>5. Len(left) + Len(right) = Len(s) - 1
  BY <1>1, <1>2, <1>3
<1>6. ASSUME NEW j \in 1..Len(s)-1
      PROVE  RemoveAt(s, k)[j] = IF j < k THEN s[j] ELSE s[j+1]
  <2>1. RemoveAt(s, k)[j] = IF j <= k-1 THEN left[j] ELSE right[j-(k-1)]
    BY <1>2, <1>4, <1>5
  <2>2. CASE j < k
    <3>1. j <= k-1 /\ j \in 1..k-1
      BY <1>1, <2>2
    <3>2. QED
      BY <1>2, <2>1, <2>2, <3>1
  <2>3. CASE ~(j < k)
    <3>1. ~(j <= k-1) /\ j-(k-1) \in 1..Len(s)-k /\ k+(j-(k-1)) = j+1
      BY <1>1, <2>3
    <3>2. right[j-(k-1)] = s[k+(j-(k-1))]
      BY <1>3, <3>1
    <3>3. QED
      BY <2>1, <2>3, <3>1, <3>2
  <2>4. QED
    BY <2>2, <2>3
<1>7. QED
  BY <1>4, <1>5, <1>6

LEMMA ToSetAppend ==
  ASSUME NEW S, NEW s \in Seq(S), NEW x \in S
  PROVE  ToSet(Append(s, x)) = ToSet(s) \cup {x}
<1>1. /\ Len(s) \in Nat /\ DOMAIN s = 1..Len(s) /\ DOMAIN Append(s, x) = 1..Len(s)+1
      /\ \A j \in 1..Len(s) : Append(s, x)[j] = s[j]
      /\ Append(s, x)[Len(s)+1] = x
  BY AppendProperties, LenProperties
<1>2. QED
  BY <1>1 DEF ToSet

LEMMA ToSetRemoveAt ==
  ASSUME NEW S, NEW s \in Seq(S), NEW k \in 1..Len(s)
  PROVE  /\ ToSet(RemoveAt(s, k)) \subseteq ToSet(s)
         /\ ToSet(s) \subseteq ToSet(RemoveAt(s, k)) \cup {s[k]}
<1>1. /\ Len(s) \in Nat /\ DOMAIN s = 1..Len(s) /\ DOMAIN RemoveAt(s, k) = 1..Len(s)-1
      /\ \A j \in 1..Len(s)-1 : RemoveAt(s, k)[j] = IF j < k THEN s[j] ELSE s[j+1]
  BY RemoveAtFacts, LenProperties
<1>2. ToSet(RemoveAt(s, k)) \subseteq ToSet(s)
  BY <1>1 DEF ToSet
<1>3. ASSUME NEW j \in 1..Len(s), j # k PROVE s[j] \in ToSet(RemoveAt(s, k))
  <2>1. CASE j < k
    BY <1>1, <2>1 DEF ToSet
  <2>2. CASE j > k
    <3>1. j-1 \in 1..Len(s)-1 /\ RemoveAt(s, k)[j-1] = s[j]
      BY <1>1, <2>2
    <3>2. QED
      BY <1>1, <3>1 DEF ToSet
  <2>3. QED
    BY <1>1, <1>3, <2>1, <2>2
<1>4. QED
  BY <1>1, <1>2, <1>3 DEF ToSet

LEMMA TailFacts ==
  ASSUME NEW S, NEW s \in Seq(S), s # <<>>
  PROVE  /\ Len(s) \in Nat \ {0} /\ DOMAIN s = 1..Len(s)
         /\ Tail(s) \in Seq(S) /\ Len(Tail(s)) = Len(s)-1
         /\ DOMAIN Tail(s) = 1..Len(s)-1
         /\ Head(s) = s[1] /\ Head(s) \in S
         /\ \A j \in 1..Len(s)-1 : Tail(s)[j] = s[j+1]
<1>1. Len(s) \in Nat /\ DOMAIN s = 1..Len(s) /\ Len(s) # 0
  BY LenProperties, EmptySeq
<1>2. Tail(s) \in Seq(S) /\ Len(Tail(s)) = Len(s)-1
  BY HeadTailProperties
<1>3. DOMAIN Tail(s) = 1..Len(s)-1
  BY <1>2, LenProperties
<1>4. Head(s) = s[1] /\ Head(s) \in S /\ \A j \in 1..Len(s)-1 : Tail(s)[j] = s[j+1]
  BY <1>1, <1>2, HeadTailProperties
<1>5. QED
  BY <1>1, <1>2, <1>3, <1>4

LEMMA ToSetTail ==
  ASSUME NEW S, NEW s \in Seq(S), s # <<>>
  PROVE  ToSet(s) = {Head(s)} \cup ToSet(Tail(s))
<1>1. /\ Len(s) \in Nat \ {0} /\ DOMAIN s = 1..Len(s) /\ DOMAIN Tail(s) = 1..Len(s)-1
      /\ Head(s) = s[1] /\ \A j \in 1..Len(s)-1 : Tail(s)[j] = s[j+1]
  BY TailFacts
<1>2. \A j \in 2..Len(s) : j-1 \in 1..Len(s)-1 /\ Tail(s)[j-1] = s[j]
  BY <1>1
<1>3. ToSet(s) \subseteq {Head(s)} \cup ToSet(Tail(s))
  <2>1. ASSUME NEW j \in 1..Len(s) PROVE s[j] \in {Head(s)} \cup ToSet(Tail(s))
    <3>1. j = 1 \/ j \in 2..Len(s)
      BY <1>1
    <3>2. QED
      BY <1>1, <1>2, <3>1 DEF ToSet
  <2>2. QED
    BY <1>1, <2>1 DEF ToSet
<1>4. {Head(s)} \cup ToSet(Tail(s)) \subseteq ToSet(s)
  BY <1>1 DEF ToSet
<1>5. QED
  BY <1>3, <1>4
-----------------------------------------------------------------------------
(* What one turn of the listener's loop does *)

LEMMA BranchNames ==
  ASSUME NEW t
  PROVE  Branch(t) \in {"index_error", "nfs", "explorer", "exe", "python", "byebye", "other"}
BY DEF Branch

\* The program dies or stops, and takes what waits with it.
Ends ==
  /\ listener' \in {"dead", "stopped"} /\ inbox' = <<>>
  /\ downSince' = downSince \cup ToSet(sent)

\* It is done with the datagram at the head of the buffer.
Goes ==
  /\ listener' \in {"recv", "modal"} /\ inbox' = Tail(inbox)
  /\ UNCHANGED downSince

LEMMA ReceiveCases ==
  ASSUME Receive
  PROVE  /\ inbox # <<>> /\ listener = "recv"
         /\ UNCHANGED <<text, sent, net, losses, copies, reordered, restarts, crowdedOut>>
         /\ \/ Ends /\ (UNCHANGED launched \/ Run(Head(inbox)))
            \/ Goes /\ Run(Head(inbox))
            \/ Goes /\ UNCHANGED launched /\ Head(inbox) \notin Known
<1> DEFINE c == Head(inbox)
           rest == Tail(inbox)
<1>1. CASE text[c] \in TooLong
  BY <1>1 DEF Receive, Exit, Ends, network
<1>2. CASE text[c] \notin TooLong /\ c \notin Known
  BY <1>2 DEF Receive, Proceed, Goes, network
<1>3. CASE text[c] \notin TooLong /\ c \in Known
  <2>1. /\ inbox # <<>> /\ listener = "recv" /\ Dispatch(c, rest)
        /\ UNCHANGED <<text, sent, net, losses, copies, reordered, restarts, crowdedOut>>
    BY <1>3 DEF Receive, network
  <2>2. CASE Branch(text[c]) \in {"nfs", "explorer", "exe", "other"}
    <3>1. Popen(c, rest)
      BY <2>1, <2>2 DEF Dispatch
    <3>2. QED
      BY <2>1, <3>1 DEF Popen, Proceed, Exit, Goes, Ends
  <2>3. CASE Branch(text[c]) = "python"
    <3>1. Exec(c, rest)
      BY <2>1, <2>3 DEF Dispatch
    <3>2. QED
      BY <2>1, <3>1 DEF Exec, Proceed, Exit, Goes, Ends
  <2>4. CASE Branch(text[c]) \in {"byebye", "index_error"}
    BY <2>1, <2>4 DEF Dispatch, Exit, Ends
  <2>5. QED
    BY <2>2, <2>3, <2>4, BranchNames
<1>4. QED
  BY <1>1, <1>2, <1>3
-----------------------------------------------------------------------------
(* Type correctness *)

LEMMA RunType ==
  ASSUME TypeOK, NEW c \in Client, Run(c)
  PROVE  launched' \in Seq(Launch)
<1>1. [by |-> c, text |-> Rewrite(text[c])] \in Launch
  BY DEF TypeOK, Launch
<1>2. QED
  BY <1>1, AppendProperties DEF TypeOK, Run

LEMMA TypeStep == TypeOK /\ [Next]_vars => TypeOK'
<1> SUFFICES ASSUME TypeOK, [Next]_vars PROVE TypeOK'
  OBVIOUS
<1> USE BoundAssumption
<1>1. /\ sent \in Seq(Client) /\ net \in Seq(Client) /\ inbox \in Seq(Client)
      /\ Len(inbox) \in Nat /\ ToSet(sent) \subseteq Client
  <2>1. sent \in Seq(Client) /\ net \in Seq(Client) /\ inbox \in Seq(Client)
    BY DEF TypeOK
  <2>2. QED
    BY <2>1, LenProperties, ElementOfSeq DEF ToSet
<1>2. ASSUME NEW k \in DOMAIN net
      PROVE  RemoveAt(net, k) \in Seq(Client) /\ net[k] \in Client
  BY <1>1, LenProperties, ElementOfSeq, RemoveAtFacts
<1>3. ASSUME NEW c \in Client, Send(c) PROVE TypeOK'
  <2>1. sent' \in Seq(Client) /\ net' \in Seq(Client)
    BY <1>1, <1>3, AppendProperties DEF Send
  <2>2. DOMAIN text' = Client /\ \A d \in Client : text'[d] \in Text[d] \cup {<<>>}
    BY <1>3 DEF Send, TypeOK
  <2>3. QED
    BY <1>1, <1>3, <2>1, <2>2 DEF Send, TypeOK
<1>4. CASE Lose
  <2>1. net' \in Seq(Client)
    BY <1>2, <1>4 DEF Lose
  <2>2. QED
    BY <1>4, <2>1 DEF Lose, TypeOK
<1>5. CASE Repeat
  <2>1. net' \in Seq(Client)
    BY <1>1, <1>2, <1>5, AppendProperties DEF Repeat
  <2>2. QED
    BY <1>5, <2>1 DEF Repeat, TypeOK
<1>6. CASE Arrive
  <2>1. PICK k \in DOMAIN net :
          /\ net' = RemoveAt(net, k)
          /\ reordered' = (reordered \/ k > 1)
          /\ inbox' = IF Running /\ Len(inbox) < InboxSize
                        THEN Append(inbox, net[k]) ELSE inbox
          /\ crowdedOut' = IF Running /\ Len(inbox) = InboxSize
                             THEN crowdedOut \cup {net[k]} ELSE crowdedOut
    BY <1>6 DEF Arrive
  <2>2. net' \in Seq(Client) /\ net[k] \in Client
    BY <1>2, <2>1
  <2>3. inbox' \in Seq(Client) /\ Len(inbox') <= InboxSize
    BY <1>1, <2>1, <2>2, AppendProperties DEF TypeOK
  <2>4. reordered' \in BOOLEAN /\ crowdedOut' \subseteq Client
    BY <2>1, <2>2 DEF TypeOK
  <2>5. QED
    BY <1>6, <2>2, <2>3, <2>4 DEF Arrive, TypeOK
<1>7. CASE Receive
  <2>1. /\ inbox # <<>> /\ listener = "recv"
        /\ UNCHANGED <<text, sent, net, losses, copies, reordered, restarts, crowdedOut>>
        /\ \/ Ends /\ (UNCHANGED launched \/ Run(Head(inbox)))
           \/ Goes /\ Run(Head(inbox))
           \/ Goes /\ UNCHANGED launched /\ Head(inbox) \notin Known
    BY <1>7, ReceiveCases
  <2>2. Head(inbox) \in Client
    BY <1>1, <2>1, TailFacts
  <2>3. launched' \in Seq(Launch)
    BY <2>1, <2>2, RunType DEF TypeOK
  <2>4. inbox' \in Seq(Client) /\ Len(inbox') <= InboxSize
    <3>1. Len(inbox) <= InboxSize
      BY DEF TypeOK
    <3>2. CASE Ends
      BY <1>1, <3>2, EmptySeq DEF Ends
    <3>3. CASE Goes
      <4>1. Tail(inbox) \in Seq(Client) /\ Len(Tail(inbox)) = Len(inbox)-1
        BY <1>1, <2>1, TailFacts
      <4>2. QED
        BY <1>1, <3>1, <3>3, <4>1 DEF Goes
    <3>4. QED
      BY <2>1, <3>2, <3>3
  <2>5. QED
    BY <1>1, <2>1, <2>3, <2>4 DEF TypeOK, Ends, Goes
<1>8. CASE CloseModal \/ Restart
  BY <1>8 DEF CloseModal, Restart, TypeOK, network
<1>9. CASE UNCHANGED vars
  BY <1>9 DEF vars, network, TypeOK
<1>10. QED
  BY <1>3, <1>4, <1>5, <1>6, <1>7, <1>8, <1>9 DEF Next

LEMMA TypeInit == Init => TypeOK
<1> SUFFICES ASSUME Init PROVE TypeOK
  OBVIOUS
<1>1. /\ {sent, net, inbox} \subseteq Seq(Client)
      /\ launched \in Seq(Launch) /\ Len(inbox) = 0
  BY EmptySeq DEF Init
<1>2. DOMAIN text = Client /\ \A c \in Client : text[c] \in Text[c] \cup {<<>>}
  BY DEF Init
<1>3. losses \in 0..MaxLosses /\ copies \in 0..MaxCopies /\ restarts \in 0..MaxRestarts
  BY BoundAssumption DEF Init
<1>4. /\ Len(inbox) <= InboxSize /\ listener \in {"recv", "modal", "stopped", "dead"}
      /\ downSince \subseteq Client /\ crowdedOut \subseteq Client
      /\ reordered \in BOOLEAN
  <2>1. Len(inbox) <= InboxSize
    BY <1>1, BoundAssumption
  <2>2. downSince = {} /\ crowdedOut = {} /\ reordered = FALSE /\ listener = "recv"
    BY DEF Init
  <2>3. QED
    BY <2>1, <2>2
<1>5. QED
  BY <1>1, <1>2, <1>3, <1>4 DEF TypeOK

\* The type invariant holds in every reachable state.
THEOREM TypeCorrect == Spec => []TypeOK
BY TypeInit, TypeStep, PTL DEF Spec
-----------------------------------------------------------------------------
(* No command goes missing while the listener runs *)

LaunchedBy == {launched[k].by : k \in DOMAIN launched}

\* Whatever is on its way, waits or was run has been sent, and a listener that
\* is not running has been down since every sending.
Travels ==
  /\ ToSet(net) \subseteq ToSet(sent)
  /\ ToSet(inbox) \subseteq ToSet(sent)
  /\ LaunchedBy \subseteq ToSet(sent)

DownInv == ~Running => ToSet(sent) \subseteq downSince

MissInv == TypeOK /\ Travels /\ DownInv /\ MissingOnlyIfDown

LEMMA SeqTypes ==
  ASSUME TypeOK
  PROVE  /\ sent \in Seq(Client) /\ net \in Seq(Client) /\ inbox \in Seq(Client)
         /\ Len(sent) \in Nat /\ Len(net) \in Nat /\ Len(inbox) \in Nat /\ Len(launched) \in Nat
         /\ DOMAIN sent = 1..Len(sent) /\ DOMAIN net = 1..Len(net)
         /\ DOMAIN inbox = 1..Len(inbox) /\ DOMAIN launched = 1..Len(launched)
         /\ \A k \in DOMAIN net : net[k] \in Client
<1>1. sent \in Seq(Client) /\ net \in Seq(Client) /\ inbox \in Seq(Client)
  BY DEF TypeOK
<1>2. launched \in Seq(Launch)
  BY DEF TypeOK
<1>3. /\ Len(launched) \in Nat /\ DOMAIN launched = 1..Len(launched)
  BY <1>2, LenProperties
<1>4. QED
  BY <1>1, <1>3, LenProperties, ElementOfSeq

LEMMA LaunchedByLaunches ==
  ASSUME NEW c
  PROVE  Launches(c) # {} <=> c \in LaunchedBy
BY DEF Launches, LaunchedBy

LEMMA RunFacts ==
  ASSUME TypeOK, NEW c \in Client, Run(c)
  PROVE  /\ Len(launched') = Len(launched) + 1
         /\ DOMAIN launched' = 1..Len(launched)+1
         /\ \A k \in 1..Len(launched) : launched'[k] = launched[k]
         /\ launched'[Len(launched)+1].by = c
         /\ launched'[Len(launched)+1].text = Rewrite(text[c])
         /\ LaunchedBy' = LaunchedBy \cup {c}
<1> DEFINE rec == [by |-> c, text |-> Rewrite(text[c])]
<1>1. launched \in Seq(Launch) /\ rec \in Launch
  BY DEF TypeOK, Launch
<1>2. /\ Len(launched) \in Nat /\ DOMAIN launched = 1..Len(launched)
      /\ launched' = Append(launched, rec)
      /\ rec.by = c /\ rec.text = Rewrite(text[c])
  BY <1>1, LenProperties DEF Run
<1> HIDE DEF rec
<1>3. /\ launched' \in Seq(Launch) /\ Len(launched') = Len(launched) + 1
      /\ \A k \in 1..Len(launched) : launched'[k] = launched[k]
      /\ launched'[Len(launched)+1] = rec
  BY <1>1, <1>2, AppendProperties
<1>4. DOMAIN launched' = 1..Len(launched)+1
  BY <1>3, LenProperties
<1>5. LaunchedBy' = LaunchedBy \cup {c}
  BY <1>2, <1>3, <1>4 DEF LaunchedBy
<1>6. QED
  BY <1>2, <1>3, <1>4, <1>5

LEMMA MissStep == MissInv /\ [Next]_vars => MissInv'
<1> SUFFICES ASSUME MissInv, [Next]_vars PROVE MissInv'
  OBVIOUS
<1> DEFINE Accounted(c) ==
      \/ c \in LaunchedBy
      \/ c \in ToSet(net) \cup ToSet(inbox)
      \/ c \in downSince \cup crowdedOut
<1>1. TypeOK /\ TypeOK' /\ Travels /\ DownInv
  BY TypeStep DEF MissInv
<1>2. losses = 0 => \A c \in ToSet(sent) \cap Known : Accounted(c)
  BY LaunchedByLaunches DEF MissInv, MissingOnlyIfDown
<1>3. ASSUME losses' = 0 => \A c \in (ToSet(sent) \cap Known)' : Accounted(c)'
      PROVE  MissingOnlyIfDown'
  <2>1. \A c : Launches(c)' # {} <=> c \in LaunchedBy'
    BY DEF Launches, LaunchedBy
  <2>2. QED
    BY <1>3, <2>1 DEF MissingOnlyIfDown
<1>4. ASSUME NEW k \in DOMAIN net
      PROVE  /\ net[k] \in Client
             /\ ToSet(RemoveAt(net, k)) \subseteq ToSet(net)
             /\ ToSet(net) \subseteq ToSet(RemoveAt(net, k)) \cup {net[k]}
             /\ net[k] \in ToSet(net)
             /\ ToSet(Append(net, net[k])) = ToSet(net)
  <2>1. /\ net \in Seq(Client) /\ DOMAIN net = 1..Len(net) /\ k \in 1..Len(net)
        /\ net[k] \in Client
    BY <1>1, SeqTypes
  <2>2. net[k] \in ToSet(net)
    BY DEF ToSet
  <2>3. /\ ToSet(RemoveAt(net, k)) \subseteq ToSet(net)
        /\ ToSet(net) \subseteq ToSet(RemoveAt(net, k)) \cup {net[k]}
    BY <2>1, ToSetRemoveAt
  <2>4. ToSet(Append(net, net[k])) = ToSet(net) \cup {net[k]}
    BY <2>1, ToSetAppend
  <2>5. QED
    BY <2>1, <2>2, <2>3, <2>4
<1>5. ASSUME NEW c \in Client, Send(c) PROVE MissInv'
  <2>1. ToSet(sent') = ToSet(sent) \cup {c} /\ ToSet(net') = ToSet(net) \cup {c}
    BY <1>1, <1>5, SeqTypes, ToSetAppend DEF Send
  <2>2. Travels' /\ DownInv'
    BY <1>1, <1>5, <2>1 DEF Send, Travels, DownInv, Running, LaunchedBy
  <2>3. losses' = 0 => \A d \in (ToSet(sent) \cap Known)' : Accounted(d)'
    BY <1>2, <1>5, <2>1 DEF Send, LaunchedBy
  <2>4. QED
    BY <1>1, <1>3, <2>2, <2>3 DEF MissInv
<1>6. CASE Lose
  <2>1. Travels' /\ DownInv'
    BY <1>1, <1>4, <1>6 DEF Lose, Travels, DownInv, Running, LaunchedBy
  <2>2. losses' # 0
    BY <1>1, <1>6, BoundAssumption DEF Lose, TypeOK
  <2>3. QED
    BY <1>1, <2>1, <2>2 DEF MissInv, MissingOnlyIfDown
<1>7. CASE Repeat
  <2>1. ToSet(net') = ToSet(net)
    BY <1>4, <1>7 DEF Repeat
  <2>2. Travels' /\ DownInv'
    BY <1>1, <1>7, <2>1 DEF Repeat, Travels, DownInv, Running, LaunchedBy
  <2>3. losses' = 0 => \A d \in (ToSet(sent) \cap Known)' : Accounted(d)'
    BY <1>2, <1>7, <2>1 DEF Repeat, LaunchedBy
  <2>4. QED
    BY <1>1, <1>3, <2>2, <2>3 DEF MissInv
<1>8. CASE Arrive
  <2>1. PICK k \in DOMAIN net :
          /\ net' = RemoveAt(net, k)
          /\ inbox' = IF Running /\ Len(inbox) < InboxSize
                        THEN Append(inbox, net[k]) ELSE inbox
          /\ crowdedOut' = IF Running /\ Len(inbox) = InboxSize
                             THEN crowdedOut \cup {net[k]} ELSE crowdedOut
    BY <1>8 DEF Arrive
  <2>2. UNCHANGED <<sent, launched, downSince, losses, listener>>
    BY <1>8 DEF Arrive
  <2>3. ToSet(inbox') = IF Running /\ Len(inbox) < InboxSize
                          THEN ToSet(inbox) \cup {net[k]} ELSE ToSet(inbox)
    <3>1. inbox \in Seq(Client) /\ net[k] \in Client
      BY <1>1, <1>4, SeqTypes
    <3>2. ToSet(Append(inbox, net[k])) = ToSet(inbox) \cup {net[k]}
      BY <3>1, ToSetAppend
    <3>3. QED
      BY <2>1, <3>2
  <2>4. Travels' /\ DownInv'
    BY <1>1, <1>4, <2>1, <2>2, <2>3 DEF Travels, DownInv, Running, LaunchedBy
  <2>5. ASSUME losses' = 0, NEW d \in ToSet(sent) \cap Known PROVE Accounted(d)'
    <3>1. CASE d = net[k]
      <4>1. Len(inbox) <= InboxSize /\ Len(inbox) \in Nat /\ InboxSize \in Nat
        BY <1>1, SeqTypes, BoundAssumption DEF TypeOK
      <4>2. CASE Running /\ Len(inbox) < InboxSize
        BY <2>3, <3>1, <4>2
      <4>3. CASE Running /\ Len(inbox) = InboxSize
        BY <2>1, <3>1, <4>3
      <4>4. CASE ~Running
        BY <1>1, <2>2, <4>4 DEF DownInv
      <4>5. QED
        BY <4>1, <4>2, <4>3, <4>4
    <3>2. CASE d # net[k]
      <4>1. Accounted(d)
        BY <1>2, <2>2, <2>5
      <4>2. crowdedOut \subseteq crowdedOut' /\ ToSet(inbox) \subseteq ToSet(inbox')
        BY <2>1, <2>3
      <4>3. d \in ToSet(net) => d \in ToSet(net')
        BY <1>4, <2>1, <3>2
      <4>4. QED
        BY <2>2, <4>1, <4>2, <4>3 DEF LaunchedBy
    <3>3. QED
      BY <3>1, <3>2
  <2>6. QED
    BY <1>1, <1>3, <2>2, <2>4, <2>5 DEF MissInv
<1>9. CASE Receive
  <2> DEFINE c == Head(inbox)
  <2>1. /\ inbox # <<>> /\ listener = "recv"
        /\ UNCHANGED <<text, sent, net, losses, copies, reordered, restarts, crowdedOut>>
        /\ \/ Ends /\ (UNCHANGED launched \/ Run(c))
           \/ Goes /\ Run(c)
           \/ Goes /\ UNCHANGED launched /\ c \notin Known
    BY <1>9, ReceiveCases
  <2>2. c \in Client /\ ToSet(inbox) = {c} \cup ToSet(Tail(inbox))
    BY <1>1, <2>1, SeqTypes, TailFacts, ToSetTail
  <2>3. Run(c) => LaunchedBy' = LaunchedBy \cup {c}
    BY <1>1, <2>2, RunFacts
  <2>4. LaunchedBy' = LaunchedBy \/ LaunchedBy' = LaunchedBy \cup {c}
    BY <2>1, <2>3 DEF LaunchedBy
  <2>5. Ends => ToSet(inbox') = {}
    BY DEF Ends, ToSet
  <2>6. Travels' /\ DownInv'
    BY <1>1, <2>1, <2>2, <2>4, <2>5 DEF Travels, DownInv, Running, Ends, Goes
  <2>7. ASSUME losses' = 0, NEW d \in ToSet(sent) \cap Known PROVE Accounted(d)'
    <3>1. Accounted(d)
      BY <1>2, <2>1, <2>7
    <3>2. CASE Ends
      BY <3>2 DEF Ends
    <3>3. CASE Goes
      <4>1. d = c => d \in LaunchedBy'
        BY <2>1, <2>3, <3>3 DEF Ends, Goes
      <4>2. d # c /\ d \in ToSet(inbox) => d \in ToSet(inbox')
        BY <2>2, <3>3 DEF Goes
      <4>3. UNCHANGED <<net, downSince, crowdedOut>>
        BY <2>1, <3>3 DEF Goes
      <4>4. QED
        BY <2>4, <3>1, <4>1, <4>2, <4>3
    <3>4. QED
      BY <2>1, <3>2, <3>3
  <2>8. QED
    BY <1>1, <1>3, <2>1, <2>6, <2>7 DEF MissInv
<1>10. CASE CloseModal \/ Restart
  <2>1. /\ UNCHANGED <<sent, net, inbox, losses, launched, downSince, crowdedOut>>
        /\ listener' = "recv"
    BY <1>10 DEF CloseModal, Restart, network
  <2>2. Travels' /\ DownInv'
    BY <1>1, <2>1 DEF Travels, DownInv, Running, LaunchedBy
  <2>3. losses' = 0 => \A d \in (ToSet(sent) \cap Known)' : Accounted(d)'
    BY <1>2, <2>1 DEF LaunchedBy
  <2>4. QED
    BY <1>1, <1>3, <2>2, <2>3 DEF MissInv
<1>11. CASE UNCHANGED vars
  <2>1. UNCHANGED <<sent, net, inbox, losses, launched, downSince, crowdedOut, listener>>
    BY <1>11 DEF vars, network
  <2>2. Travels' /\ DownInv'
    BY <1>1, <2>1 DEF Travels, DownInv, Running, LaunchedBy
  <2>3. losses' = 0 => \A d \in (ToSet(sent) \cap Known)' : Accounted(d)'
    BY <1>2, <2>1 DEF LaunchedBy
  <2>4. QED
    BY <1>1, <1>3, <2>2, <2>3 DEF MissInv
<1>12. QED
  BY <1>5, <1>6, <1>7, <1>8, <1>9, <1>10, <1>11 DEF Next

LEMMA NothingYet == Init => TypeOK /\ Travels /\ LaunchedBy = {} /\ ToSet(sent) = {}
<1> SUFFICES ASSUME Init PROVE TypeOK /\ Travels /\ LaunchedBy = {} /\ ToSet(sent) = {}
  OBVIOUS
<1>1. ToSet(sent) = {} /\ ToSet(net) = {} /\ ToSet(inbox) = {} /\ LaunchedBy = {}
  BY DEF Init, ToSet, LaunchedBy
<1>2. QED
  BY <1>1, TypeInit DEF Travels

LEMMA MissInit == Init => MissInv
<1> SUFFICES ASSUME Init PROVE MissInv
  OBVIOUS
<1>1. TypeOK /\ Travels /\ ToSet(sent) = {}
  BY NothingYet
<1>2. QED
  BY <1>1 DEF MissInv, DownInv, MissingOnlyIfDown

\* While nothing is lost on the way, a command of a known host that was not
\* run is still waiting, or met a listener that was down or a full buffer.
THEOREM MissingOnlyIfDownAlways == Spec => []MissingOnlyIfDown
<1>1. MissInv => MissingOnlyIfDown
  BY DEF MissInv
<1>2. QED
  BY <1>1, MissInit, MissStep, PTL DEF Spec
-----------------------------------------------------------------------------
(* Commands run in the order in which they were sent *)

\* The pairs of clients that sent one after the other.
Before ==
  {p \in ToSet(sent) \X ToSet(sent) :
     \E m, n \in DOMAIN sent : m < n /\ sent[m] = p[1] /\ sent[n] = p[2]}

\* The elements of s follow one another as R says.
Rising(s, R) == \A j, k \in DOMAIN s : j < k => <<s[j], s[k]>> \in R

LaunchesRise ==
  \A j, k \in DOMAIN launched : j < k => <<launched[j].by, launched[k].by>> \in Before

\* What was run came before what waits, and that before what is on its way.
Ordered ==
  /\ Rising(net, Before) /\ Rising(inbox, Before) /\ LaunchesRise
  /\ ToSet(inbox) \X ToSet(net) \subseteq Before
  /\ LaunchedBy \X (ToSet(inbox) \cup ToSet(net)) \subseteq Before

OrderKept == ~reordered /\ copies = 0 => Ordered

OrderInv == TypeOK /\ Travels /\ OrderKept

LEMMA RisingAppend ==
  ASSUME NEW S, NEW s \in Seq(S), NEW x \in S, NEW R, Rising(s, R),
         \A y \in ToSet(s) : <<y, x>> \in R
  PROVE  Rising(Append(s, x), R)
<1>1. /\ Len(s) \in Nat /\ DOMAIN s = 1..Len(s) /\ DOMAIN Append(s, x) = 1..Len(s)+1
      /\ \A j \in 1..Len(s) : Append(s, x)[j] = s[j]
      /\ Append(s, x)[Len(s)+1] = x
  BY AppendProperties, LenProperties
<1>2. ASSUME NEW j \in 1..Len(s)+1, NEW k \in 1..Len(s)+1, j < k
      PROVE  <<Append(s, x)[j], Append(s, x)[k]>> \in R
  <2>1. j \in 1..Len(s) /\ Append(s, x)[j] = s[j] /\ s[j] \in ToSet(s)
    BY <1>1, <1>2 DEF ToSet
  <2>2. CASE k = Len(s)+1
    BY <1>1, <2>1, <2>2
  <2>3. CASE k # Len(s)+1
    <3>1. k \in 1..Len(s) /\ Append(s, x)[k] = s[k]
      BY <1>1, <2>3
    <3>2. QED
      BY <1>1, <1>2, <2>1, <3>1 DEF Rising
  <2>4. QED
    BY <2>2, <2>3
<1>3. QED
  BY <1>1, <1>2 DEF Rising

LEMMA RisingRemoveAt ==
  ASSUME NEW S, NEW s \in Seq(S), NEW k \in 1..Len(s), NEW R, Rising(s, R)
  PROVE  Rising(RemoveAt(s, k), R)
<1> DEFINE r == RemoveAt(s, k)
           from(j) == IF j < k THEN j ELSE j+1
<1>1. /\ Len(s) \in Nat /\ DOMAIN s = 1..Len(s) /\ DOMAIN r = 1..Len(s)-1
      /\ \A j \in 1..Len(s)-1 : r[j] = s[from(j)]
  <2>1. /\ Len(s) \in Nat /\ DOMAIN s = 1..Len(s) /\ DOMAIN r = 1..Len(s)-1
        /\ \A j \in 1..Len(s)-1 : r[j] = IF j < k THEN s[j] ELSE s[j+1]
    BY RemoveAtFacts, LenProperties
  <2>2. QED
    BY <2>1
<1> HIDE DEF r
<1>2. ASSUME NEW i \in 1..Len(s)-1, NEW j \in 1..Len(s)-1, i < j
      PROVE  <<r[i], r[j]>> \in R
  <2>1. from(i) \in 1..Len(s) /\ from(j) \in 1..Len(s) /\ from(i) < from(j)
    BY <1>1, <1>2
  <2>2. <<s[from(i)], s[from(j)]>> \in R
    BY <1>1, <2>1 DEF Rising
  <2>3. QED
    BY <1>1, <2>2
<1>3. Rising(r, R)
  BY <1>1, <1>2 DEF Rising
<1>4. QED
  BY <1>3 DEF r

LEMMA FirstBeforeRest ==
  ASSUME NEW S, NEW s \in Seq(S), 1 \in 1..Len(s), NEW R, Rising(s, R)
  PROVE  {s[1]} \X ToSet(RemoveAt(s, 1)) \subseteq R
<1>1. /\ Len(s) \in Nat /\ DOMAIN s = 1..Len(s) /\ DOMAIN RemoveAt(s, 1) = 1..Len(s)-1
      /\ \A j \in 1..Len(s)-1 : RemoveAt(s, 1)[j] = s[j+1]
  BY RemoveAtFacts, LenProperties
<1>2. ASSUME NEW j \in 1..Len(s)-1 PROVE <<s[1], RemoveAt(s, 1)[j]>> \in R
  BY <1>1 DEF Rising
<1>3. QED
  BY <1>1, <1>2 DEF ToSet

LEMMA TailIsRemoveAt ==
  ASSUME NEW S, NEW s \in Seq(S), s # <<>>
  PROVE  Tail(s) = RemoveAt(s, 1) /\ Head(s) = s[1] /\ 1 \in 1..Len(s)
<1>1. /\ Len(s) \in Nat \ {0} /\ DOMAIN s = 1..Len(s) /\ Tail(s) \in Seq(S)
      /\ Len(Tail(s)) = Len(s)-1 /\ Head(s) = s[1]
      /\ \A j \in 1..Len(s)-1 : Tail(s)[j] = s[j+1]
  BY TailFacts
<1>2. 1 \in 1..Len(s)
  BY <1>1
<1>3. /\ RemoveAt(s, 1) \in Seq(S) /\ Len(RemoveAt(s, 1)) = Len(s)-1
      /\ \A j \in 1..Len(s)-1 : RemoveAt(s, 1)[j] = s[j+1]
  <2>1. /\ RemoveAt(s, 1) \in Seq(S) /\ Len(RemoveAt(s, 1)) = Len(s)-1
        /\ \A j \in 1..Len(s)-1 : RemoveAt(s, 1)[j] = IF j < 1 THEN s[j] ELSE s[j+1]
    BY <1>2, RemoveAtFacts
  <2>2. \A j \in 1..Len(s)-1 : ~(j < 1)
    OBVIOUS
  <2>3. QED
    BY <2>1, <2>2
<1>4. Tail(s) = RemoveAt(s, 1)
  BY <1>1, <1>3, SeqEqual
<1>5. QED
  BY <1>1, <1>2, <1>4

LEMMA SendFacts ==
  ASSUME TypeOK, NEW c \in Client, Send(c)
  PROVE  /\ ToSet(sent') = ToSet(sent) \cup {c}
         /\ Before \subseteq Before'
         /\ \A y \in ToSet(sent) : <<y, c>> \in Before'
<1>1. sent \in Seq(Client) /\ sent' = Append(sent, c)
  BY SeqTypes DEF Send
<1>2. ToSet(sent') = ToSet(sent) \cup {c}
  BY <1>1, ToSetAppend
<1>3. /\ Len(sent) \in Nat /\ DOMAIN sent = 1..Len(sent) /\ DOMAIN sent' = 1..Len(sent)+1
      /\ \A j \in 1..Len(sent) : sent'[j] = sent[j]
      /\ sent'[Len(sent)+1] = c
  BY <1>1, AppendProperties, LenProperties
<1>4. ASSUME NEW p \in Before PROVE p \in Before'
  <2>1. /\ p \in ToSet(sent) \X ToSet(sent)
        /\ \E m, n \in DOMAIN sent : m < n /\ sent[m] = p[1] /\ sent[n] = p[2]
    BY DEF Before
  <2>2. \E m, n \in DOMAIN sent' : m < n /\ sent'[m] = p[1] /\ sent'[n] = p[2]
    BY <1>3, <2>1
  <2>3. p \in ToSet(sent') \X ToSet(sent')
    BY <1>2, <2>1
  <2>4. QED
    BY <2>2, <2>3 DEF Before
<1>5. ASSUME NEW y \in ToSet(sent) PROVE <<y, c>> \in Before'
  <2>1. PICK m \in DOMAIN sent : sent[m] = y
    BY DEF ToSet
  <2>2. m \in DOMAIN sent' /\ Len(sent)+1 \in DOMAIN sent' /\ m < Len(sent)+1
    BY <1>3
  <2>3. sent'[m] = y /\ sent'[Len(sent)+1] = c
    BY <1>3, <2>1
  <2>4. <<y, c>> \in ToSet(sent') \X ToSet(sent')
    BY <1>2
  <2>5. QED
    BY <2>2, <2>3, <2>4 DEF Before
<1>6. QED
  BY <1>2, <1>4, <1>5

LEMMA OrderStep == OrderInv /\ [Next]_vars => OrderInv'
<1> SUFFICES ASSUME OrderInv, [Next]_vars PROVE OrderInv'
  OBVIOUS
<1>1. TypeOK /\ TypeOK' /\ Travels /\ OrderKept
  BY TypeStep DEF OrderInv
<1>2. /\ sent \in Seq(Client) /\ net \in Seq(Client) /\ inbox \in Seq(Client)
      /\ DOMAIN net = 1..Len(net) /\ DOMAIN launched = 1..Len(launched)
      /\ Len(launched) \in Nat /\ \A k \in DOMAIN net : net[k] \in Client
  BY <1>1, SeqTypes
<1>3. ASSUME NEW k \in DOMAIN net
      PROVE  /\ k \in 1..Len(net) /\ net[k] \in Client /\ net[k] \in ToSet(net)
             /\ ToSet(RemoveAt(net, k)) \subseteq ToSet(net)
  <2>1. k \in 1..Len(net) /\ net[k] \in Client /\ net[k] \in ToSet(net)
    BY <1>2 DEF ToSet
  <2>2. QED
    BY <1>2, <2>1, ToSetRemoveAt
<1>4. ASSUME NEW c \in Client, Send(c) PROVE OrderInv'
  <2>1. /\ ToSet(sent') = ToSet(sent) \cup {c} /\ Before \subseteq Before'
        /\ \A y \in ToSet(sent) : <<y, c>> \in Before'
    BY <1>1, <1>4, SendFacts
  <2>2. net' = Append(net, c) /\ UNCHANGED <<inbox, launched, reordered, copies>>
    BY <1>4 DEF Send
  <2>3. ToSet(net') = ToSet(net) \cup {c}
    BY <1>2, <2>2, ToSetAppend
  <2>4. Travels'
    BY <1>1, <2>1, <2>2, <2>3 DEF Travels, LaunchedBy
  <2>5. ASSUME Ordered PROVE Ordered'
    <3>1. Rising(net', Before')
      <4>1. Rising(net, Before') /\ \A y \in ToSet(net) : <<y, c>> \in Before'
        BY <1>1, <2>1, <2>5 DEF Ordered, Rising, Travels
      <4>2. QED
        BY <1>2, <2>2, <4>1, RisingAppend
    <3>2. Rising(inbox', Before') /\ LaunchesRise'
      BY <2>1, <2>2, <2>5 DEF Ordered, Rising, LaunchesRise
    <3>3. /\ ToSet(inbox') \X ToSet(net') \subseteq Before'
          /\ LaunchedBy' \X (ToSet(inbox') \cup ToSet(net')) \subseteq Before'
      <4>1. ToSet(inbox') = ToSet(inbox) /\ LaunchedBy' = LaunchedBy
        BY <2>2 DEF LaunchedBy
      <4>2. ToSet(inbox) \subseteq ToSet(sent) /\ LaunchedBy \subseteq ToSet(sent)
        BY <1>1 DEF Travels
      <4>3. /\ ToSet(inbox) \X ToSet(net) \subseteq Before'
            /\ LaunchedBy \X (ToSet(inbox) \cup ToSet(net)) \subseteq Before'
        BY <2>1, <2>5 DEF Ordered
      <4>4. QED
        BY <2>1, <2>3, <4>1, <4>2, <4>3
    <3>4. QED
      BY <3>1, <3>2, <3>3 DEF Ordered
  <2>6. QED
    BY <1>1, <2>2, <2>4, <2>5 DEF OrderInv, OrderKept
<1>5. CASE Lose
  <2>1. PICK k \in DOMAIN net : net' = RemoveAt(net, k)
    BY <1>5 DEF Lose
  <2>2. UNCHANGED <<sent, inbox, launched, reordered, copies>>
    BY <1>5 DEF Lose
  <2>3. ToSet(net') \subseteq ToSet(net)
    BY <1>3, <2>1
  <2>4. Before' = Before /\ LaunchedBy' = LaunchedBy /\ ToSet(sent') = ToSet(sent)
    BY <2>2 DEF Before, LaunchedBy
  <2>5. Travels'
    BY <1>1, <2>2, <2>3, <2>4 DEF Travels
  <2>6. ASSUME Ordered PROVE Ordered'
    <3>1. Rising(net', Before')
      BY <1>2, <1>3, <2>1, <2>4, <2>6, RisingRemoveAt DEF Ordered
    <3>2. Rising(inbox', Before') /\ LaunchesRise'
      BY <2>2, <2>4, <2>6 DEF Ordered, LaunchesRise
    <3>3. QED
      BY <2>2, <2>3, <2>4, <2>6, <3>1, <3>2 DEF Ordered
  <2>7. QED
    BY <1>1, <2>2, <2>5, <2>6 DEF OrderInv, OrderKept
<1>6. CASE Repeat
  <2>1. PICK k \in DOMAIN net : net' = Append(net, net[k])
    BY <1>6 DEF Repeat
  <2>2. UNCHANGED <<sent, inbox, launched>> /\ copies' = copies + 1
    BY <1>6 DEF Repeat
  <2>3. ToSet(net') = ToSet(net) \cup {net[k]}
    BY <1>2, <1>3, <2>1, ToSetAppend
  <2>4. Travels'
    BY <1>1, <1>3, <2>2, <2>3 DEF Travels, LaunchedBy
  <2>5. copies' # 0
    BY <1>1, <2>2, BoundAssumption DEF TypeOK
  <2>6. QED
    BY <1>1, <2>4, <2>5 DEF OrderInv, OrderKept
<1>7. CASE Arrive
  <2>1. PICK k \in DOMAIN net :
          /\ net' = RemoveAt(net, k)
          /\ reordered' = (reordered \/ k > 1)
          /\ inbox' = IF Running /\ Len(inbox) < InboxSize
                        THEN Append(inbox, net[k]) ELSE inbox
    BY <1>7 DEF Arrive
  <2>2. UNCHANGED <<sent, launched, copies>>
    BY <1>7 DEF Arrive
  <2>3. ToSet(net') \subseteq ToSet(net) /\ net[k] \in ToSet(net) /\ net[k] \in Client
    BY <1>3, <2>1
  <2>4. Before' = Before /\ LaunchedBy' = LaunchedBy /\ ToSet(sent') = ToSet(sent)
    BY <2>2 DEF Before, LaunchedBy
  <2>5. ToSet(Append(inbox, net[k])) = ToSet(inbox) \cup {net[k]}
    BY <1>2, <2>3, ToSetAppend
  <2>6. ToSet(inbox') \subseteq ToSet(inbox) \cup {net[k]}
    BY <2>1, <2>5
  <2>7. Travels'
    BY <1>1, <2>3, <2>4, <2>6 DEF Travels
  <2>8. ASSUME Ordered, k = 1 PROVE Ordered'
    <3>1. Rising(net', Before) /\ {net[1]} \X ToSet(net') \subseteq Before
      <4>1. 1 \in 1..Len(net) /\ Rising(net, Before)
        BY <1>3, <2>8 DEF Ordered
      <4>2. QED
        BY <1>2, <2>1, <2>8, <4>1, RisingRemoveAt, FirstBeforeRest
    <3>2. Rising(inbox', Before)
      <4>1. Rising(inbox, Before) /\ \A y \in ToSet(inbox) : <<y, net[k]>> \in Before
        BY <2>3, <2>8 DEF Ordered
      <4>2. Rising(Append(inbox, net[k]), Before)
        BY <1>2, <2>3, <4>1, RisingAppend
      <4>3. QED
        BY <2>1, <4>1, <4>2
    <3>3. LaunchesRise'
      BY <2>2, <2>4, <2>8 DEF Ordered, LaunchesRise
    <3>4. ToSet(inbox') \X ToSet(net') \subseteq Before
      BY <2>3, <2>6, <2>8, <3>1 DEF Ordered
    <3>5. LaunchedBy \X (ToSet(inbox') \cup ToSet(net')) \subseteq Before
      BY <2>3, <2>6, <2>8 DEF Ordered
    <3>6. QED
      BY <2>4, <3>1, <3>2, <3>3, <3>4, <3>5 DEF Ordered
  <2>9. ~reordered' => ~reordered /\ k = 1
    <3>1. ~(k > 1) => k = 1
      BY <1>2
    <3>2. QED
      BY <2>1, <3>1
  <2>10. QED
    BY <1>1, <2>2, <2>7, <2>8, <2>9 DEF OrderInv, OrderKept
<1>8. CASE Receive
  <2> DEFINE c == Head(inbox)
  <2>1. /\ inbox # <<>>
        /\ UNCHANGED <<sent, net, copies, reordered>>
        /\ inbox' = <<>> \/ inbox' = Tail(inbox)
        /\ UNCHANGED launched \/ Run(c)
    BY <1>8, ReceiveCases DEF Ends, Goes
  <2>2. /\ Tail(inbox) = RemoveAt(inbox, 1) /\ c = inbox[1] /\ 1 \in 1..Len(inbox)
        /\ c \in Client /\ ToSet(inbox) = {c} \cup ToSet(Tail(inbox))
    BY <1>2, <2>1, TailIsRemoveAt, TailFacts, ToSetTail
  <2>3. ToSet(inbox') \subseteq ToSet(Tail(inbox))
    BY <2>1 DEF ToSet
  <2>4. Before' = Before /\ ToSet(sent') = ToSet(sent) /\ ToSet(net') = ToSet(net)
    BY <2>1 DEF Before
  <2>5. LaunchedBy' \subseteq LaunchedBy \cup {c}
    BY <1>1, <2>1, <2>2, RunFacts DEF LaunchedBy
  <2>6. Travels'
    BY <1>1, <2>2, <2>3, <2>4, <2>5 DEF Travels
  <2>7. ASSUME Ordered PROVE Ordered'
    <3>1. Rising(inbox', Before)
      <4>1. Rising(Tail(inbox), Before)
        BY <1>2, <2>2, <2>7, RisingRemoveAt DEF Ordered
      <4>2. Rising(<<>>, Before)
        BY DEF Rising
      <4>3. QED
        BY <2>1, <4>1, <4>2
    <3>2. {c} \X ToSet(Tail(inbox)) \subseteq Before
      BY <1>2, <2>2, <2>7, FirstBeforeRest DEF Ordered
    <3>3. LaunchesRise'
      <4>1. CASE UNCHANGED launched
        BY <2>4, <2>7, <4>1 DEF Ordered, LaunchesRise
      <4>2. CASE Run(c)
        <5>1. /\ DOMAIN launched' = 1..Len(launched)+1
              /\ \A k \in 1..Len(launched) : launched'[k] = launched[k]
              /\ launched'[Len(launched)+1].by = c
          BY <1>1, <2>2, <4>2, RunFacts
        <5>2. \A j \in 1..Len(launched) : <<launched[j].by, c>> \in Before
          BY <1>2, <2>2, <2>7 DEF Ordered, LaunchedBy
        <5>3. ASSUME NEW j \in DOMAIN launched', NEW k \in DOMAIN launched', j < k
              PROVE  <<launched'[j].by, launched'[k].by>> \in Before
          <6>1. j \in 1..Len(launched)
            BY <1>2, <5>1, <5>3
          <6>2. CASE k = Len(launched)+1
            BY <5>1, <5>2, <6>1, <6>2
          <6>3. CASE k # Len(launched)+1
            <7>1. k \in 1..Len(launched)
              BY <1>2, <5>1, <6>3
            <7>2. <<launched[j].by, launched[k].by>> \in Before
              BY <1>2, <2>7, <5>3, <6>1, <7>1 DEF Ordered, LaunchesRise
            <7>3. QED
              BY <5>1, <6>1, <7>1, <7>2
          <6>4. QED
            BY <6>2, <6>3
        <5>4. QED
          BY <2>4, <5>3 DEF LaunchesRise
      <4>3. QED
        BY <2>1, <4>1, <4>2
    <3>4. ToSet(inbox') \X ToSet(net') \subseteq Before
      BY <2>2, <2>3, <2>4, <2>7 DEF Ordered
    <3>5. LaunchedBy' \X (ToSet(inbox') \cup ToSet(net')) \subseteq Before
      BY <2>2, <2>3, <2>4, <2>5, <2>7, <3>2 DEF Ordered
    <3>6. Rising(net', Before)
      BY <2>1, <2>7 DEF Ordered
    <3>7. QED
      BY <2>4, <3>1, <3>3, <3>4, <3>5, <3>6 DEF Ordered
  <2>8. QED
    BY <1>1, <2>1, <2>6, <2>7 DEF OrderInv, OrderKept
<1>9. CASE CloseModal \/ Restart \/ UNCHANGED vars
  <2>1. UNCHANGED <<sent, net, inbox, launched, reordered, copies>>
    BY <1>9 DEF CloseModal, Restart, vars, network
  <2>2. Before' = Before /\ LaunchedBy' = LaunchedBy
    BY <2>1 DEF Before, LaunchedBy
  <2>3. Travels'
    BY <1>1, <2>1, <2>2 DEF Travels
  <2>4. Ordered => Ordered'
    BY <2>1, <2>2 DEF Ordered, LaunchesRise
  <2>5. QED
    BY <1>1, <2>1, <2>3, <2>4 DEF OrderInv, OrderKept
<1>10. QED
  BY <1>4, <1>5, <1>6, <1>7, <1>8, <1>9 DEF Next

\* While the network keeps the order and repeats nothing, the listener runs the
\* commands in the order in which they were sent.
THEOREM InSendOrderAlways == Spec => []InSendOrder
<1>1. Init => OrderInv
  <2> SUFFICES ASSUME Init PROVE OrderInv
    OBVIOUS
  <2>1. /\ DOMAIN net = {} /\ DOMAIN inbox = {} /\ DOMAIN launched = {}
        /\ ToSet(inbox) = {} /\ LaunchedBy = {}
    BY DEF Init, ToSet, LaunchedBy
  <2>2. Ordered
    BY <2>1 DEF Ordered, Rising, LaunchesRise
  <2>3. QED
    BY <2>2, NothingYet DEF OrderInv, OrderKept
<1>2. OrderInv => InSendOrder
  <2> SUFFICES ASSUME OrderInv, ~reordered, copies = 0,
                      NEW j \in DOMAIN launched, NEW k \in DOMAIN launched, j < k
               PROVE  \E m, n \in DOMAIN sent :
                        m < n /\ sent[m] = launched[j].by /\ sent[n] = launched[k].by
    BY DEF InSendOrder
  <2>1. <<launched[j].by, launched[k].by>> \in Before
    BY DEF OrderInv, OrderKept, Ordered, LaunchesRise
  <2>2. QED
    BY <2>1 DEF Before
<1>3. QED
  BY <1>1, <1>2, OrderStep, PTL DEF Spec
-----------------------------------------------------------------------------
(* No command runs more often than the network delivered it *)

Places(s, c) == {k \in DOMAIN s : s[k] = c}
Count(s, c) == Cardinality(Places(s, c))
Runs(c) == Cardinality(Launches(c))
SentOnce(c) == IF c \in ToSet(sent) THEN 1 ELSE 0

\* Every run used up a datagram, and every datagram is one that was sent or a
\* copy that the network made of one.
CountInv ==
  /\ Len(net) + Len(inbox) + Len(launched) <= Len(sent) + copies
  /\ \A c \in Client :
       Count(net, c) + Count(inbox, c) + Runs(c) <= SentOnce(c) + copies

RunsInv == TypeOK /\ CountInv

LEMMA CountFacts ==
  ASSUME NEW S, NEW s \in Seq(S), NEW c
  PROVE  IsFiniteSet(Places(s, c)) /\ Count(s, c) \in Nat
<1>1. Len(s) \in Nat /\ DOMAIN s = 1..Len(s)
  BY LenProperties
<1>2. IsFiniteSet(1..Len(s))
  BY <1>1, FS_Interval
<1>3. IsFiniteSet(Places(s, c))
  BY <1>1, <1>2, FS_Subset DEF Places
<1>4. QED
  BY <1>3, FS_CardinalityType DEF Count

LEMMA CountAppend ==
  ASSUME NEW S, NEW s \in Seq(S), NEW x \in S, NEW c
  PROVE  Count(Append(s, x), c) = Count(s, c) + (IF x = c THEN 1 ELSE 0)
<1>1. /\ Len(s) \in Nat /\ DOMAIN s = 1..Len(s) /\ DOMAIN Append(s, x) = 1..Len(s)+1
      /\ \A j \in 1..Len(s) : Append(s, x)[j] = s[j]
      /\ Append(s, x)[Len(s)+1] = x
  BY AppendProperties, LenProperties
<1>2. IsFiniteSet(Places(s, c)) /\ Count(s, c) \in Nat
  BY CountFacts
<1>3. Len(s)+1 \notin Places(s, c)
  BY <1>1 DEF Places
<1>4. CASE x = c
  <2>1. Places(Append(s, x), c) = Places(s, c) \cup {Len(s)+1}
    BY <1>1, <1>4 DEF Places
  <2>2. QED
    BY <1>2, <1>3, <1>4, <2>1, FS_AddElement DEF Count
<1>5. CASE x # c
  <2>1. Places(Append(s, x), c) = Places(s, c)
    BY <1>1, <1>5 DEF Places
  <2>2. QED
    BY <1>2, <1>5, <2>1 DEF Count
<1>6. QED
  BY <1>4, <1>5

LEMMA CountRemoveAt ==
  ASSUME NEW S, NEW s \in Seq(S), NEW k \in 1..Len(s), NEW c
  PROVE  Count(RemoveAt(s, k), c) <= Count(s, c) - (IF s[k] = c THEN 1 ELSE 0)
<1> DEFINE r == RemoveAt(s, k)
           rest == Places(s, c) \ {k}
           from == [j \in Places(r, c) |-> IF j < k THEN j ELSE j+1]
<1>1. /\ Len(s) \in Nat /\ DOMAIN s = 1..Len(s) /\ DOMAIN r = 1..Len(s)-1 /\ r \in Seq(S)
      /\ \A j \in 1..Len(s)-1 : r[j] = IF j < k THEN s[j] ELSE s[j+1]
  BY RemoveAtFacts, LenProperties
<1>2. IsFiniteSet(Places(s, c)) /\ Count(s, c) \in Nat /\ Count(r, c) \in Nat
  BY <1>1, CountFacts
<1>3. /\ IsFiniteSet(rest)
      /\ Cardinality(rest) = IF k \in Places(s, c) THEN Count(s, c)-1 ELSE Count(s, c)
  BY <1>2, FS_RemoveElement DEF Count
<1>4. k \in Places(s, c) <=> s[k] = c
  BY <1>1 DEF Places
<1> HIDE DEF r
<1>5. from \in Injection(Places(r, c), rest)
  <2>1. ASSUME NEW j \in Places(r, c) PROVE (IF j < k THEN j ELSE j+1) \in rest
    <3>1. j \in 1..Len(s)-1 /\ r[j] = c
      BY <1>1 DEF Places
    <3>2. CASE j < k
      BY <1>1, <3>1, <3>2 DEF Places
    <3>3. CASE ~(j < k)
      BY <1>1, <3>1, <3>3 DEF Places
    <3>4. QED
      BY <3>2, <3>3
  <2>2. from \in [Places(r, c) -> rest]
    BY <2>1
  <2>3. ASSUME NEW i \in Places(r, c), NEW j \in Places(r, c), from[i] = from[j]
        PROVE  i = j
    <3>1. i \in 1..Len(s)-1 /\ j \in 1..Len(s)-1
      BY <1>1 DEF Places
    <3>2. QED
      BY <1>1, <2>3, <3>1
  <2>4. QED
    BY <2>2, <2>3 DEF Injection, IsInjective
<1>6. Cardinality(Places(r, c)) <= Cardinality(rest)
  BY <1>3, <1>5, FS_Injection
<1>7. QED
  BY <1>2, <1>3, <1>4, <1>6 DEF Count, r

LEMMA RunsAdded ==
  ASSUME TypeOK, NEW c \in Client, Run(c), NEW d \in Client
  PROVE  Runs(d)' = Runs(d) + (IF d = c THEN 1 ELSE 0)
<1>1. /\ Len(launched) \in Nat /\ DOMAIN launched = 1..Len(launched)
      /\ DOMAIN launched' = 1..Len(launched)+1
      /\ \A k \in 1..Len(launched) : launched'[k] = launched[k]
      /\ launched'[Len(launched)+1].by = c
  BY SeqTypes, RunFacts
<1>2. IsFiniteSet(Launches(d)) /\ Len(launched)+1 \notin Launches(d) /\ Runs(d) \in Nat
  <2>1. IsFiniteSet(1..Len(launched))
    BY <1>1, FS_Interval
  <2>2. IsFiniteSet(Launches(d))
    BY <1>1, <2>1, FS_Subset DEF Launches
  <2>3. QED
    BY <1>1, <2>2, FS_CardinalityType DEF Launches, Runs
<1>3. CASE d = c
  <2>1. Launches(d)' = Launches(d) \cup {Len(launched)+1}
    BY <1>1, <1>3 DEF Launches
  <2>2. QED
    BY <1>2, <1>3, <2>1, FS_AddElement DEF Runs
<1>4. CASE d # c
  <2>1. Launches(d)' = Launches(d)
    BY <1>1, <1>4 DEF Launches
  <2>2. QED
    BY <1>2, <1>4, <2>1 DEF Runs
<1>5. QED
  BY <1>3, <1>4

LEMMA RunsFacts ==
  ASSUME TypeOK, NEW c
  PROVE  Runs(c) \in Nat
<1>1. Len(launched) \in Nat /\ DOMAIN launched = 1..Len(launched)
  BY SeqTypes
<1>2. IsFiniteSet(1..Len(launched))
  BY <1>1, FS_Interval
<1>3. IsFiniteSet(Launches(c))
  BY <1>1, <1>2, FS_Subset DEF Launches
<1>4. QED
  BY <1>3, FS_CardinalityType DEF Runs

\* CountInv for the next state, from the numbers it is about.
LEMMA CountInvNext ==
  ASSUME (Len(net) + Len(inbox) + Len(launched) <= Len(sent) + copies)',
         \A c \in Client : (Count(net, c) + Count(inbox, c) + Runs(c) <= SentOnce(c) + copies)'
  PROVE  CountInv'
BY DEF CountInv

LEMMA RunsStep == RunsInv /\ [Next]_vars => RunsInv'
<1> SUFFICES ASSUME RunsInv, [Next]_vars PROVE RunsInv'
  OBVIOUS
<1>1. TypeOK /\ TypeOK' /\ CountInv
  BY TypeStep DEF RunsInv
<1>2. /\ sent \in Seq(Client) /\ net \in Seq(Client) /\ inbox \in Seq(Client)
      /\ Len(sent) \in Nat /\ Len(net) \in Nat /\ Len(inbox) \in Nat /\ Len(launched) \in Nat
      /\ DOMAIN net = 1..Len(net) /\ \A k \in DOMAIN net : net[k] \in Client
  BY <1>1, SeqTypes
<1>3. copies \in Nat
  BY <1>1, BoundAssumption DEF TypeOK
<1>4. Len(net) + Len(inbox) + Len(launched) <= Len(sent) + copies
  BY <1>1 DEF CountInv
<1>5. ASSUME NEW d \in Client
      PROVE  /\ Count(net, d) \in Nat /\ Count(inbox, d) \in Nat /\ Runs(d) \in Nat
             /\ SentOnce(d) \in {0, 1}
             /\ Count(net, d) + Count(inbox, d) + Runs(d) <= SentOnce(d) + copies
  <2>1. Count(net, d) \in Nat /\ Count(inbox, d) \in Nat /\ Runs(d) \in Nat
    BY <1>1, <1>2, CountFacts, RunsFacts
  <2>2. QED
    BY <1>1, <2>1 DEF CountInv, SentOnce
<1>6. ASSUME NEW k \in DOMAIN net
      PROVE  /\ k \in 1..Len(net) /\ net[k] \in Client
             /\ Len(RemoveAt(net, k)) = Len(net) - 1
             /\ \A d : /\ Count(RemoveAt(net, k), d) \in Nat
                       /\ Count(RemoveAt(net, k), d)
                            <= Count(net, d) - (IF net[k] = d THEN 1 ELSE 0)
  <2>1. k \in 1..Len(net) /\ net[k] \in Client
    BY <1>2
  <2>2. RemoveAt(net, k) \in Seq(Client) /\ Len(RemoveAt(net, k)) = Len(net) - 1
    BY <1>2, <2>1, RemoveAtFacts
  <2>3. QED
    BY <1>2, <2>1, <2>2, CountRemoveAt, CountFacts
<1>7. ASSUME NEW c \in Client, Send(c) PROVE CountInv'
  <2>1. /\ c \notin ToSet(sent) /\ sent' = Append(sent, c) /\ net' = Append(net, c)
        /\ UNCHANGED <<inbox, launched, copies>>
    BY <1>7 DEF Send
  <2>2. Len(sent') = Len(sent) + 1 /\ Len(net') = Len(net) + 1
    BY <1>2, <2>1, AppendProperties
  <2>3. ASSUME NEW d \in Client
        PROVE  (Count(net, d) + Count(inbox, d) + Runs(d) <= SentOnce(d) + copies)'
    <3>1. Count(net', d) = Count(net, d) + (IF c = d THEN 1 ELSE 0)
      BY <1>2, <2>1, CountAppend
    <3>2. SentOnce(d)' = SentOnce(d) + (IF c = d THEN 1 ELSE 0)
      <4>1. ToSet(sent') = ToSet(sent) \cup {c}
        BY <1>2, <2>1, ToSetAppend
      <4>2. QED
        BY <2>1, <4>1 DEF SentOnce
    <3>3. Count(inbox', d) = Count(inbox, d) /\ Runs(d)' = Runs(d) /\ copies' = copies
      BY <2>1 DEF Runs, Launches
    <3>4. QED
      BY <1>3, <1>5, <3>1, <3>2, <3>3
  <2>4. QED
    BY <1>2, <1>3, <1>4, <2>1, <2>2, <2>3, CountInvNext
<1>8. ASSUME Lose PROVE CountInv'
  <2>1. PICK k \in DOMAIN net : net' = RemoveAt(net, k)
    BY <1>8 DEF Lose
  <2>2. UNCHANGED <<sent, inbox, launched, copies>>
    BY <1>8 DEF Lose
  <2>3. ASSUME NEW d \in Client
        PROVE  (Count(net, d) + Count(inbox, d) + Runs(d) <= SentOnce(d) + copies)'
    <3>1. Count(net', d) \in Nat /\ Count(net', d) <= Count(net, d)
      <4>1. /\ Count(net', d) \in Nat
            /\ Count(net', d) <= Count(net, d) - (IF net[k] = d THEN 1 ELSE 0)
        BY <1>6, <2>1
      <4>2. Count(net, d) \in Nat
        BY <1>5
      <4>3. QED
        BY <4>1, <4>2
    <3>2. /\ Count(inbox', d) = Count(inbox, d) /\ Runs(d)' = Runs(d)
          /\ SentOnce(d)' = SentOnce(d) /\ copies' = copies
      BY <2>2 DEF Runs, Launches, SentOnce
    <3>3. QED
      BY <1>3, <1>5, <3>1, <3>2
  <2>4. Len(net') = Len(net) - 1
    BY <1>6, <2>1
  <2>5. QED
    BY <1>2, <1>3, <1>4, <2>2, <2>3, <2>4, CountInvNext
<1>9. ASSUME Repeat PROVE CountInv'
  <2>1. PICK k \in DOMAIN net : net' = Append(net, net[k])
    BY <1>9 DEF Repeat
  <2>2. UNCHANGED <<sent, inbox, launched>> /\ copies' = copies + 1
    BY <1>9 DEF Repeat
  <2>3. net[k] \in Client
    BY <1>2
  <2>4. ASSUME NEW d \in Client
        PROVE  (Count(net, d) + Count(inbox, d) + Runs(d) <= SentOnce(d) + copies)'
    <3>1. Count(net', d) = Count(net, d) + (IF net[k] = d THEN 1 ELSE 0)
      BY <1>2, <2>1, <2>3, CountAppend
    <3>2. /\ Count(inbox', d) = Count(inbox, d) /\ Runs(d)' = Runs(d)
          /\ SentOnce(d)' = SentOnce(d)
      BY <2>2 DEF Runs, Launches, SentOnce
    <3>3. QED
      BY <1>3, <1>5, <2>2, <3>1, <3>2
  <2>5. Len(net') = Len(net) + 1
    BY <1>2, <2>1, <2>3, AppendProperties
  <2>6. QED
    BY <1>2, <1>3, <1>4, <2>2, <2>4, <2>5, CountInvNext
<1>10. ASSUME Arrive PROVE CountInv'
  <2>1. PICK k \in DOMAIN net :
          /\ net' = RemoveAt(net, k)
          /\ inbox' = IF Running /\ Len(inbox) < InboxSize
                        THEN Append(inbox, net[k]) ELSE inbox
    BY <1>10 DEF Arrive
  <2>2. UNCHANGED <<sent, launched, copies>>
    BY <1>10 DEF Arrive
  <2>3. net[k] \in Client /\ Len(net') = Len(net) - 1
    BY <1>6, <2>1
  <2>4. inbox' = inbox \/ inbox' = Append(inbox, net[k])
    BY <2>1
  <2>5. Len(inbox') \in {Len(inbox), Len(inbox) + 1}
    BY <1>2, <2>3, <2>4, AppendProperties
  <2>6. ASSUME NEW d \in Client
        PROVE  (Count(net, d) + Count(inbox, d) + Runs(d) <= SentOnce(d) + copies)'
    <3>1. /\ Count(net', d) \in Nat
          /\ Count(net', d) <= Count(net, d) - (IF net[k] = d THEN 1 ELSE 0)
      BY <1>6, <2>1
    <3>2. \/ Count(inbox', d) = Count(inbox, d)
          \/ Count(inbox', d) = Count(inbox, d) + (IF net[k] = d THEN 1 ELSE 0)
      <4>1. Count(Append(inbox, net[k]), d) = Count(inbox, d) + (IF net[k] = d THEN 1 ELSE 0)
        BY <1>2, <2>3, CountAppend
      <4>2. QED
        BY <2>4, <4>1
    <3>3. Runs(d)' = Runs(d) /\ SentOnce(d)' = SentOnce(d) /\ copies' = copies
      BY <2>2 DEF Runs, Launches, SentOnce
    <3>4. QED
      BY <1>3, <1>5, <3>1, <3>2, <3>3
  <2>7. QED
    BY <1>2, <1>3, <1>4, <2>2, <2>3, <2>5, <2>6, CountInvNext
<1>11. ASSUME Receive PROVE CountInv'
  <2> DEFINE c == Head(inbox)
  <2>1. /\ inbox # <<>> /\ UNCHANGED <<sent, net, copies>>
        /\ inbox' = <<>> \/ inbox' = Tail(inbox)
        /\ UNCHANGED launched \/ Run(c)
    BY <1>11, ReceiveCases DEF Ends, Goes
  <2>2. /\ Tail(inbox) = RemoveAt(inbox, 1) /\ c = inbox[1] /\ 1 \in 1..Len(inbox)
        /\ c \in Client /\ Tail(inbox) \in Seq(Client) /\ Len(Tail(inbox)) = Len(inbox)-1
    BY <1>2, <2>1, TailIsRemoveAt, TailFacts
  <2>3. Len(launched') \in {Len(launched), Len(launched) + 1}
    BY <1>1, <2>1, <2>2, RunFacts
  <2>4. Len(inbox') \in Nat /\ Len(inbox') <= Len(inbox) - 1
    BY <1>2, <2>1, <2>2, EmptySeq
  <2>5. ASSUME NEW d \in Client
        PROVE  (Count(net, d) + Count(inbox, d) + Runs(d) <= SentOnce(d) + copies)'
    <3>1. /\ Count(Tail(inbox), d) \in Nat
          /\ Count(Tail(inbox), d) <= Count(inbox, d) - (IF c = d THEN 1 ELSE 0)
      BY <1>2, <2>2, CountRemoveAt, CountFacts
    <3>2. Count(<<>>, d) = 0
      <4>1. Places(<<>>, d) = {}
        BY DEF Places
      <4>2. QED
        BY <4>1, FS_EmptySet DEF Count
    <3>3. /\ Count(inbox', d) \in Nat
          /\ Count(inbox', d) <= Count(inbox, d) - (IF c = d THEN 1 ELSE 0)
      <4>1. CASE inbox' = Tail(inbox)
        BY <3>1, <4>1
      <4>2. CASE inbox' = <<>>
        <5>1. Count(inbox', d) = 0
          BY <3>2, <4>2
        <5>2. Count(inbox, d) \in Nat
          BY <1>5
        <5>3. QED
          BY <3>1, <5>1, <5>2
      <4>3. QED
        BY <2>1, <4>1, <4>2
    <3>4. \/ Runs(d)' = Runs(d)
          \/ Runs(d)' = Runs(d) + (IF d = c THEN 1 ELSE 0)
      <4>1. CASE UNCHANGED launched
        BY <4>1 DEF Runs, Launches
      <4>2. CASE Run(c)
        BY <1>1, <2>2, <4>2, RunsAdded
      <4>3. QED
        BY <2>1, <4>1, <4>2
    <3>5. Count(net', d) = Count(net, d) /\ SentOnce(d)' = SentOnce(d) /\ copies' = copies
      BY <2>1 DEF SentOnce
    <3>6. QED
      BY <1>3, <1>5, <3>3, <3>4, <3>5
  <2>6. QED
    BY <1>2, <1>3, <1>4, <2>1, <2>3, <2>4, <2>5, CountInvNext
<1>12. ASSUME CloseModal \/ Restart \/ UNCHANGED vars PROVE CountInv'
  <2>1. UNCHANGED <<sent, net, inbox, launched, copies>>
    BY <1>12 DEF CloseModal, Restart, vars, network
  <2>2. QED
    BY <1>1, <2>1 DEF CountInv, Runs, Launches, SentOnce
<1>13. QED
  BY <1>1, <1>7, <1>8, <1>9, <1>10, <1>11, <1>12 DEF Next, RunsInv

\* Whatever the network loses, repeats and reorders, and wherever the listener
\* is cut short and started again, no command runs more often than the network
\* delivered it.
THEOREM NoExtraRunsAlways == Spec => []NoExtraRuns
<1>1. Init => RunsInv
  <2> SUFFICES ASSUME Init PROVE RunsInv
    OBVIOUS
  <2>1. TypeOK
    BY TypeInit
  <2>2. /\ Len(net) = 0 /\ Len(inbox) = 0 /\ Len(launched) = 0 /\ Len(sent) = 0
        /\ copies = 0
    BY EmptySeq DEF Init
  <2>3. \A c : Places(net, c) = {} /\ Places(inbox, c) = {} /\ Launches(c) = {}
    BY DEF Init, Places, Launches
  <2>4. \A c : Count(net, c) = 0 /\ Count(inbox, c) = 0 /\ Runs(c) = 0
    BY <2>3, FS_EmptySet DEF Count, Runs
  <2>5. CountInv
    BY <2>2, <2>4 DEF CountInv, SentOnce
  <2>6. QED
    BY <2>1, <2>5 DEF RunsInv
<1>2. RunsInv => NoExtraRuns
  <2> SUFFICES ASSUME RunsInv PROVE NoExtraRuns
    OBVIOUS
  <2>1. TypeOK /\ CountInv /\ copies \in Nat
    BY BoundAssumption DEF RunsInv, TypeOK
  <2>2. /\ Len(net) \in Nat /\ Len(inbox) \in Nat /\ Len(launched) \in Nat
        /\ Len(sent) \in Nat /\ net \in Seq(Client) /\ inbox \in Seq(Client)
    BY <2>1, SeqTypes
  <2>3. Len(launched) <= Len(sent) + copies
    BY <2>1, <2>2 DEF CountInv
  <2>4. ASSUME NEW c \in Client PROVE Runs(c) <= 1 + copies
    <3>1. Count(net, c) \in Nat /\ Count(inbox, c) \in Nat /\ Runs(c) \in Nat
      BY <2>1, <2>2, CountFacts, RunsFacts
    <3>2. SentOnce(c) \in {0, 1}
      BY DEF SentOnce
    <3>3. Count(net, c) + Count(inbox, c) + Runs(c) <= SentOnce(c) + copies
      BY <2>1 DEF CountInv
    <3>4. QED
      BY <2>1, <3>1, <3>2, <3>3
  <2>5. QED
    BY <2>3, <2>4 DEF NoExtraRuns, Runs
<1>3. QED
  BY <1>1, <1>2, RunsStep, PTL DEF Spec
-----------------------------------------------------------------------------
(* What is run names its files the way Windows sees them *)

\* What was run is the rewritten text of the client it was run for: a client's
\* text does not change once it has been sent.
TextInv == \A k \in DOMAIN launched : launched[k].text = Rewrite(text[launched[k].by])

LEMMA OpensByKind ==
  ASSUME NEW t, t # <<>>, t[1].path = "none", t[1].kind \in {"explorer", "exe"},
         ~Garbled(t)
  PROVE  Branch(t) = t[1].kind
<1>1. t[1] # Word("python", "none")
  BY DEF Word
<1>2. t # <<Word("byebye", "none")>>
  BY DEF Word
<1>3. FirstArg(t) = t[1].kind
  BY DEF FirstArg, Garbled
<1>4. QED
  BY <1>1, <1>2, <1>3 DEF Branch

\* The words of the commands of e and ee.
FileWord ==
  [ kind : {"explorer", "exe", "other"}, path : {"none", "home", "prj", "abs"},
    quote : {"none", "closed", "open"} ]

LEMMA OpeningWords ==
  ASSUME NEW a \in FileWord, NEW s \in Seq(FileWord), NEW rest \in Rests,
         s # <<>>, s[1] = a, a.path = "none", a.kind \in {"explorer", "exe"},
         NEW t, t = s \o rest
  PROVE  /\ t \in Seq(FileWord) /\ t # <<>>
         /\ t[1].path = "none" /\ t[1].kind \in {"explorer", "exe"}
<1> DEFINE w == Word("other", "none")
           q == OpenQuote
<1>1. w \in FileWord /\ q \in FileWord
  BY DEF Word, OpenQuote, FileWord
<1>2. rest \in Seq(FileWord)
  <2>1. rest \in {<<>>, <<w>>, <<q>>}
    BY DEF Rests
  <2> HIDE DEF w, q
  <2>2. {<<>>, <<w>>, <<q>>} \subseteq Seq(FileWord)
    BY <1>1
  <2>3. QED
    BY <2>1, <2>2
<1>3. Len(s) \in Nat \ {0}
  BY EmptySeq, LenProperties
<1>4. /\ t \in Seq(FileWord)
      /\ Len(t) = Len(s) + Len(rest)
      /\ t[1] = s[1]
  BY <1>2, <1>3, ConcatProperties, LenProperties
<1>5. t # <<>>
  BY <1>2, <1>3, <1>4, LenProperties
<1>6. QED
  BY <1>4, <1>5

\* Every command of e and ee begins with a program that the listener knows.
LEMMA FileTextsOpen ==
  ASSUME NEW t \in FileTexts
  PROVE  /\ t \in Seq(FileWord) /\ t # <<>>
         /\ t[1].path = "none" /\ t[1].kind \in {"explorer", "exe"}
<1>1. /\ Word("explorer", "none") \in FileWord /\ Quoted("exe") \in FileWord
      /\ Word("other", "none") \in FileWord
      /\ \A path \in {"none", "home", "prj", "abs"} : Word("other", path) \in FileWord
  BY DEF Word, Quoted, FileWord
<1>2. /\ Word("explorer", "none").path = "none" /\ Word("explorer", "none").kind = "explorer"
      /\ Quoted("exe").path = "none" /\ Quoted("exe").kind = "exe"
  BY DEF Word, Quoted
<1>3. ASSUME NEW path \in {"none", "rel", "home", "prj", "abs"}, NEW cwd \in Cwds,
             NEW rest \in Rests, t = EText("e", path, cwd, TRUE, rest)
      PROVE  /\ t \in Seq(FileWord) /\ t # <<>>
             /\ t[1].path = "none" /\ t[1].kind \in {"explorer", "exe"}
  <2>1. CASE path = "none"
    <3> DEFINE a == Word("explorer", "none")
               b == Word("other", cwd)
    <3>1. t = <<a, b>> \o rest
      BY <1>3, <2>1 DEF EText
    <3>2. a \in FileWord /\ b \in FileWord
      BY <1>1 DEF Cwds
    <3>3. a.path = "none" /\ a.kind = "explorer"
      BY <1>2
    <3> HIDE DEF a, b
    <3>4. <<a, b>> \in Seq(FileWord) /\ <<a, b>> # <<>> /\ <<a, b>>[1] = a
      BY <3>2
    <3>5. QED
      BY <3>1, <3>2, <3>3, <3>4, OpeningWords
  <2>2. CASE path # "none"
    <3> DEFINE a == Quoted("exe")
               b == Word("other", Located(path, cwd))
    <3>1. t = <<a, b>> \o rest
      BY <1>3, <2>2 DEF EText
    <3>2. Located(path, cwd) \in {"home", "prj", "abs"}
      BY <2>2 DEF Located, Cwds
    <3>3. a \in FileWord /\ b \in FileWord
      BY <1>1, <3>2
    <3>4. a.path = "none" /\ a.kind = "exe"
      BY <1>2
    <3> HIDE DEF a, b
    <3>5. <<a, b>> \in Seq(FileWord) /\ <<a, b>> # <<>> /\ <<a, b>>[1] = a
      BY <3>3
    <3>6. QED
      BY <3>1, <3>3, <3>4, <3>5, OpeningWords
  <2>3. QED
    BY <2>1, <2>2
<1>4. ASSUME NEW cwd \in Cwds, NEW rest \in Rests, t = EEText(cwd, rest)
      PROVE  /\ t \in Seq(FileWord) /\ t # <<>>
             /\ t[1].path = "none" /\ t[1].kind \in {"explorer", "exe"}
  <2> DEFINE a == Quoted("exe")
             n == Word("other", "none")
             b == Word("other", cwd)
  <2>1. t = <<a, n, b>> \o rest
    BY <1>4 DEF EEText
  <2>2. a \in FileWord /\ n \in FileWord /\ b \in FileWord
    BY <1>1 DEF Cwds
  <2>3. a.path = "none" /\ a.kind = "exe"
    BY <1>2
  <2> HIDE DEF a, n, b
  <2>4. <<a, n, b>> \in Seq(FileWord) /\ <<a, n, b>> # <<>> /\ <<a, n, b>>[1] = a
    BY <2>2
  <2>5. QED
    BY <2>1, <2>2, <2>3, <2>4, OpeningWords
<1>5. \/ \E path \in {"none", "rel", "home", "prj", "abs"}, cwd \in Cwds, rest \in Rests :
           t = EText("e", path, cwd, TRUE, rest)
      \/ \E cwd \in Cwds, rest \in Rests : t = EEText(cwd, rest)
  BY DEF FileTexts
<1>6. QED
  BY <1>3, <1>4, <1>5

LEMMA SambaTranslates ==
  ASSUME NEW w \in FileWord, w.path # "abs"
  PROVE  Samba(w).path \notin {"home", "prj", "abs"}
BY DEF FileWord, Samba

\* They go through the branches that rewrite every word, unless an unmatched
\* quote hides the program.
LEMMA FileTextsTranslated ==
  ASSUME NEW t \in FileTexts, ~Garbled(t), \A j \in DOMAIN t : t[j].path # "abs"
  PROVE  Translated(Rewrite(t))
<1>1. /\ t \in Seq(FileWord) /\ t # <<>>
      /\ t[1].path = "none" /\ t[1].kind \in {"explorer", "exe"}
  BY FileTextsOpen
<1>2. Branch(t) \in {"explorer", "exe"}
  BY <1>1, OpensByKind
<1>3. Rewrite(t) = [k \in DOMAIN t |-> Samba(t[k])]
  BY <1>2 DEF Rewrite
<1>4. \A k \in DOMAIN t : t[k] \in FileWord
  BY <1>1, ElementOfSeq, LenProperties
<1>5. \A k \in DOMAIN t : Samba(t[k]).path \notin {"home", "prj", "abs"}
  BY <1>4, SambaTranslates
<1>6. QED
  BY <1>3, <1>5 DEF Translated

LEMMA TextStep == MissInv /\ TextInv /\ [Next]_vars => TextInv'
<1> SUFFICES ASSUME MissInv, TextInv, [Next]_vars PROVE TextInv'
  OBVIOUS
<1>1. TypeOK /\ Travels
  BY DEF MissInv
<1>2. ASSUME NEW c \in Client, Send(c) PROVE TextInv'
  <2>1. launched' = launched /\ c \notin LaunchedBy
    BY <1>1, <1>2 DEF Send, Travels
  <2>2. \A d \in Client : d # c => text'[d] = text[d]
    BY <1>1, <1>2 DEF Send, TypeOK
  <2>3. ASSUME NEW k \in DOMAIN launched
        PROVE  text'[launched[k].by] = text[launched[k].by]
    <3>1. launched[k].by \in Client
      <4>1. launched \in Seq(Launch)
        BY <1>1 DEF TypeOK
      <4>2. launched[k] \in Launch
        BY <4>1, ElementOfSeq, LenProperties
      <4>3. QED
        BY <4>2 DEF Launch
    <3>2. launched[k].by # c
      BY <2>1 DEF LaunchedBy
    <3>3. QED
      BY <2>2, <3>1, <3>2
  <2>4. QED
    BY <2>1, <2>3 DEF TextInv
<1>3. CASE Receive
  <2>1. /\ inbox # <<>> /\ text' = text
        /\ UNCHANGED launched \/ Run(Head(inbox))
    BY <1>3, ReceiveCases
  <2>2. CASE UNCHANGED launched
    BY <2>1, <2>2 DEF TextInv
  <2>3. CASE Run(Head(inbox))
    <3>1. Head(inbox) \in Client
      BY <1>1, <2>1, SeqTypes, TailFacts
    <3>2. /\ DOMAIN launched' = 1..Len(launched)+1
          /\ \A k \in 1..Len(launched) : launched'[k] = launched[k]
          /\ launched'[Len(launched)+1].by = Head(inbox)
          /\ launched'[Len(launched)+1].text = Rewrite(text[Head(inbox)])
      BY <1>1, <2>3, <3>1, RunFacts
    <3>3. Len(launched) \in Nat /\ DOMAIN launched = 1..Len(launched)
      BY <1>1, SeqTypes
    <3>4. QED
      BY <2>1, <3>2, <3>3 DEF TextInv
  <2>4. QED
    BY <2>1, <2>2, <2>3
<1>4. ASSUME UNCHANGED <<text, launched>> PROVE TextInv'
  BY <1>4 DEF TextInv
<1>5. QED
  BY <1>2, <1>3, <1>4 DEF Next, Lose, Repeat, Arrive, CloseModal, Restart, vars

\* No word of what is run for e or ee is still a path of the Linux host, unless
\* the file is outside /home or its name has an unmatched quote after a blank.
THEOREM FilesAreReachableAlways == Spec => []FilesAreReachable
<1>1. Init => MissInv /\ TextInv
  BY MissInit DEF Init, TextInv
<1>2. TextInv => FilesAreReachable
  BY FileTextsTranslated DEF TextInv, FilesAreReachable
<1>3. QED
  BY <1>1, <1>2, MissStep, TextStep, PTL DEF Spec
=============================================================================
