--------------------------- MODULE RemoteCommand ---------------------------
(***************************************************************************)
(* The remote command channel: e, d, ee and eee on a Linux host send a     *)
(* command in one UDP datagram to the Windows machine the user has logged  *)
(* in from, where python/imlistening.py runs it.  There is no answer, no   *)
(* retry and no sequence number: a client prints "Sent:" and exits.        *)
(*                                                                         *)
(* Each client here is one invocation.  The network and the start of       *)
(* Windows programs are external; the listener's loop is one action per    *)
(* datagram, since nothing else touches its state meanwhile.               *)
(***************************************************************************)
EXTENDS Naturals, FiniteSets, CommandText

CONSTANTS
  Client,        \* invocations of the clients
  Known,         \* those on a host that is listed in Gigacitys
  Text,          \* Text[c]: the command lines client c may send
  TooLong,       \* those of more than 1024 bytes
  MaxLosses,     \* bound on datagrams the network loses
  MaxCopies,     \* bound on datagrams the network repeats
  InboxSize,     \* datagrams the socket's receive buffer holds
  MaxRestarts    \* bound on restarts of the listener by the user

ASSUME ClientAssumption == Known \subseteq Client /\ DOMAIN Text = Client
ASSUME BoundAssumption ==
  /\ MaxLosses \in Nat /\ MaxCopies \in Nat /\ MaxRestarts \in Nat
  /\ InboxSize \in Nat \ {0}

VARIABLES
  text,        \* the command of each client, <<>> until it has sent one
  sent,        \* the clients that printed "Sent:", in order
  net,         \* the datagrams on their way, by the client that sent them
  losses, copies,   \* datagrams lost and repeated by the network so far
  inbox,       \* the listener's socket buffer
  listener,    \* "recv", "modal" (in app.exec), "stopped" or "dead"
  restarts,    \* restarts so far
  launched,    \* history: what was run, in order, and for whom
  downSince,   \* history: the clients whose command met a listener that
               \* was not running, at its sending or since
  crowdedOut,  \* history: those whose datagram met a full buffer
  reordered    \* history: has the network changed the order?

network == <<net, losses, copies, reordered>>
vars == <<text, sent, network, inbox, listener, restarts, launched, downSince,
          crowdedOut>>

Running == listener \in {"recv", "modal"}

Init ==
  /\ text = [c \in Client |-> <<>>]
  /\ sent = <<>> /\ net = <<>> /\ inbox = <<>> /\ launched = <<>>
  /\ losses = 0 /\ copies = 0 /\ restarts = 0
  /\ listener = "recv"
  /\ downSince = {} /\ crowdedOut = {}
  /\ reordered = FALSE
-----------------------------------------------------------------------------
(* The clients *)

\* sendto, close, "Sent:".  SSH_CLIENT is set; without it the client starts
\* the command itself and nothing is sent.
Send(c) ==
  /\ c \notin ToSet(sent)
  /\ \E t \in Text[c] : text' = [text EXCEPT ![c] = t]
  /\ sent' = Append(sent, c)
  /\ net' = Append(net, c)
  /\ downSince' = IF Running THEN downSince ELSE downSince \cup {c}
  /\ UNCHANGED <<losses, copies, reordered, inbox, listener, restarts, launched, crowdedOut>>
-----------------------------------------------------------------------------
(* The network *)

Lose ==
  /\ losses < MaxLosses
  /\ \E k \in DOMAIN net : net' = RemoveAt(net, k)
  /\ losses' = losses + 1
  /\ UNCHANGED <<text, sent, copies, reordered, inbox, listener, restarts, launched,
                 downSince, crowdedOut>>

Repeat ==
  /\ copies < MaxCopies
  /\ \E k \in DOMAIN net : net' = Append(net, net[k])
  /\ copies' = copies + 1
  /\ UNCHANGED <<text, sent, losses, reordered, inbox, listener, restarts, launched,
                 downSince, crowdedOut>>

\* A datagram reaches port 6821: it waits in the socket buffer, or is gone
\* when the buffer is full or nobody has the port open.
Arrive ==
  /\ \E k \in DOMAIN net :
       /\ net' = RemoveAt(net, k)
       /\ reordered' = (reordered \/ k > 1)
       /\ inbox' = IF Running /\ Len(inbox) < InboxSize
                     THEN Append(inbox, net[k]) ELSE inbox
       /\ crowdedOut' = IF Running /\ Len(inbox) = InboxSize
                          THEN crowdedOut \cup {net[k]} ELSE crowdedOut
  /\ UNCHANGED <<text, sent, losses, copies, listener, restarts, launched, downSince>>
-----------------------------------------------------------------------------
(* The listener *)

\* The process ends; its socket buffer goes with it.
Exit(how) ==
  /\ listener' = how
  /\ inbox' = <<>>
  /\ downSince' = downSince \cup ToSet(sent)

Proceed(rest) ==
  /\ listener' = "recv"
  /\ inbox' = rest
  /\ UNCHANGED downSince

\* The rewritten text goes to Windows.
Run(c) ==
  launched' = Append(launched, [by |-> c, text |-> Rewrite(text[c])])

\* Mutant: the datagram stays in the buffer and is run again.
Popen_Again(c, rest) ==
  \/ Run(c) /\ Proceed(inbox)
  \/ UNCHANGED launched /\ Exit("dead")

\* subprocess.Popen: it starts the program, or raises because there is none,
\* and nothing catches that.
Popen(c, rest) ==
  \/ Run(c) /\ Proceed(rest)
  \/ UNCHANGED launched /\ Exit("dead")

\* Mutant: what waited behind the message button is thrown away.
Exec_ForgetsRest(c, rest) ==
  /\ Run(c)
  /\ \/ Proceed(rest)
     \/ listener' = "modal" /\ inbox' = <<>> /\ UNCHANGED downSince
     \/ Exit("dead")

\* exec of the text after "python ".  An exception with two arguments is shown
\* in a button, and app.exec returns only when the user clicks it; any other
\* exception ends the listener, in the handler's own unpacking.
Exec(c, rest) ==
  /\ Run(c)
  /\ \/ Proceed(rest)
     \/ listener' = "modal" /\ inbox' = rest /\ UNCHANGED downSince
     \/ Exit("dead")

Dispatch(c, rest) ==
  CASE Branch(text[c]) \in {"nfs", "explorer", "exe", "other"} -> Popen(c, rest)
    [] Branch(text[c]) = "python"      -> Exec(c, rest)
    [] Branch(text[c]) = "byebye"      -> UNCHANGED launched /\ Exit("stopped")
    [] Branch(text[c]) = "index_error" -> UNCHANGED launched /\ Exit("dead")

\* Mutant: the newest datagram is taken first.
Receive_NewestFirst ==
  /\ listener = "recv" /\ inbox # <<>>
  /\ LET c == Last(inbox) rest == Front(inbox) IN
       CASE text[c] \in TooLong -> UNCHANGED launched /\ Exit("dead")
         [] text[c] \notin TooLong /\ c \notin Known -> UNCHANGED launched /\ Proceed(rest)
         [] OTHER -> Dispatch(c, rest)
  /\ UNCHANGED <<text, sent, network, restarts, crowdedOut>>

\* Mutant: the loop waits for a second datagram before it takes the first.
Receive_NeedsTwo ==
  /\ listener = "recv" /\ Len(inbox) > 1
  /\ LET c == Head(inbox) rest == Tail(inbox) IN
       CASE text[c] \in TooLong -> UNCHANGED launched /\ Exit("dead")
         [] text[c] \notin TooLong /\ c \notin Known -> UNCHANGED launched /\ Proceed(rest)
         [] OTHER -> Dispatch(c, rest)
  /\ UNCHANGED <<text, sent, network, restarts, crowdedOut>>

\* One turn of the loop.  A datagram that does not fit the 1024 bytes asked
\* for is an error of recvfrom on Windows, before its sender is looked at.
Receive ==
  /\ listener = "recv" /\ inbox # <<>>
  /\ LET c == Head(inbox) rest == Tail(inbox) IN
       CASE text[c] \in TooLong -> UNCHANGED launched /\ Exit("dead")
         [] text[c] \notin TooLong /\ c \notin Known -> UNCHANGED launched /\ Proceed(rest)
         [] OTHER -> Dispatch(c, rest)
  /\ UNCHANGED <<text, sent, network, restarts, crowdedOut>>

\* The user clicks the button.
CloseModal ==
  /\ listener = "modal"
  /\ listener' = "recv"
  /\ UNCHANGED <<text, sent, network, inbox, restarts, launched, downSince, crowdedOut>>

\* The user starts imlistening.py again.
Restart ==
  /\ ~Running /\ restarts < MaxRestarts
  /\ listener' = "recv"
  /\ restarts' = restarts + 1
  /\ UNCHANGED <<text, sent, network, inbox, launched, downSince, crowdedOut>>

Next ==
  \/ \E c \in Client : Send(c)
  \/ Lose \/ Repeat \/ Arrive
  \/ Receive \/ CloseModal \/ Restart

Spec == Init /\ [][Next]_vars

\* What is sent arrives, unless lost, and a listener that can take a datagram
\* takes it.  Nobody has to click the button or restart the listener.
FairSpec == Spec /\ WF_vars(Arrive) /\ WF_vars(Receive)
-----------------------------------------------------------------------------
Launch ==
  [by : Client, text : {Rewrite(t) : t \in {<<>>} \cup UNION {Text[c] : c \in Client}}]

\* Type invariant.
TypeOK ==
  /\ DOMAIN text = Client /\ \A c \in Client : text[c] \in Text[c] \cup {<<>>}
  /\ {sent, net, inbox} \subseteq Seq(Client)
  /\ launched \in Seq(Launch)
  /\ losses \in 0..MaxLosses /\ copies \in 0..MaxCopies /\ restarts \in 0..MaxRestarts
  /\ Len(inbox) <= InboxSize
  /\ listener \in {"recv", "modal", "stopped", "dead"}
  /\ downSince \subseteq Client /\ crowdedOut \subseteq Client
  /\ reordered \in BOOLEAN

Launches(c) == {k \in DOMAIN launched : launched[k].by = c}

\* No command is run more often than the network delivered it, whatever was
\* lost, reordered or cut short by a restart: the listener never runs a
\* datagram twice, and without repeated datagrams no command runs twice.
NoExtraRuns ==
  /\ \A c \in Client : Cardinality(Launches(c)) <= 1 + copies
  /\ Len(launched) <= Len(sent) + copies

\* While the network keeps the order and repeats nothing, commands run in the
\* order in which they were sent, though some may be missing.
InSendOrder ==
  ~reordered /\ copies = 0 =>
    \A j, k \in DOMAIN launched : j < k =>
      \E m, n \in DOMAIN sent :
        m < n /\ sent[m] = launched[j].by /\ sent[n] = launched[k].by

\* While the network loses nothing, a command of a known host is missing only
\* if the listener was down when it was sent or has gone down since, or if the
\* buffer was full.  A single bad command takes with it every command still
\* waiting behind it.
MissingOnlyIfDown ==
  losses = 0 =>
    \A c \in ToSet(sent) \cap Known :
      \/ Launches(c) # {}
      \/ c \in ToSet(net) \cup ToSet(inbox)
      \/ c \in downSince \cup crowdedOut

\* And a command that was sent does get its turn, unless the network loses one,
\* the listener goes down, the buffer was full, or the listener stays for ever
\* at a message button that nobody clicks.
GetsItsTurn ==
  \A c \in Known :
    (c \in ToSet(sent)) ~>
      \/ Launches(c) # {} \/ c \in downSince \cup crowdedOut
      \/ losses > 0
      \/ [](listener = "modal")

\* What e and ee ask Windows to open is named the way Windows sees it: no word
\* of the command that is run is still a path of the Linux host.  There are two
\* exceptions: a file outside /home, for which the listener has no share, and a
\* file name with an unmatched quote after a blank, which makes the listener
\* miss the program's .exe (explorer, never in quotes, is not affected).
FilesAreReachable ==
  \A k \in DOMAIN launched :
    LET asked == text[launched[k].by] IN
      asked \in FileTexts =>
        \/ Translated(launched[k].text)
        \/ \E j \in DOMAIN asked : asked[j].path = "abs"
        \/ Garbled(asked)
=============================================================================
