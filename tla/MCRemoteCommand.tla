-------------------------- MODULE MCRemoteCommand --------------------------
(* Instances of RemoteCommand for TLC. *)
EXTENDS RemoteCommand

CONSTANTS c1, c2, c3

Clients == {c1, c2, c3}

Blank == EEEText(<< <<>> >>)                      \* eee ""
Bye == EEEText(<< <<Word("byebye", "none")>> >>)
Script == EEEText(<< <<Word("python", "none")>>, <<Word("other", "none")>> >>)
Long == EEEText([k \in 1..5 |-> <<Word("other", "none")>>])
Ccc == EEEText(<< <<Word("exe", "prj")>>, <<Word("other", "prj")>> >>)

\* One command for each way the listener can treat it.
OneOfEach ==
  {Blank, Bye, Script, Long, EText("e", "rel", "home", TRUE, <<>>)}

\* Commands that name files: one or two of FileTexts for each program, for each
\* kind of directory and for each way a name may go on after a blank, and two
\* that are not of e or ee.
More == <<Word("other", "none")>>
Files ==
  { EText("e", "none", "home", TRUE, <<OpenQuote>>),
    EText("e", "prj", "abs", TRUE, More), EText("e", "rel", "abs", TRUE, <<>>),
    EText("e", "home", "home", TRUE, <<OpenQuote>>),
    EEText("prj", More), EEText("home", <<OpenQuote>>),
    EText("d", "rel", "home", TRUE, <<>>), Ccc }

\* Files but for the last two.
ASSUME FilesAssumption == Cardinality(Files \cap FileTexts) = 6

LongTexts == {Long}
Known2 == {c1, c2}

\* c1 opens files, c2 sends anything, and c3, which is not known, what would
\* stop the listener.
Texts == [c \in Clients |-> CASE c = c1 -> Files [] c = c2 -> OneOfEach [] c = c3 -> {Bye, Long}]
=============================================================================
