---------------------------- MODULE CommandText ----------------------------
(***************************************************************************)
(* The text of a remote command: what the clients python/e.py, ee.py and   *)
(* eee.py put into a datagram, and what python/imlistening.py makes of it  *)
(* before it runs it.                                                      *)
(*                                                                         *)
(* A command line is a sequence of words.  A word is known by              *)
(*   kind  what the listener's tests see in it: "explorer", "exe" (ends in *)
(*         .exe or .EXE), "python", "byebye" or "other";                   *)
(*   path  the file name in it: "none", "home" (under /home/), "prj"       *)
(*         (under /home/tsp/prj/), "abs" (another absolute path), "rel",   *)
(*         and, rewritten by the listener, "smb" (\\ip\...) or             *)
(*         "nfs" (\\ip/home/...);                                          *)
(*   quote "closed" (in quotes, blanks and all), "open" (begins with a     *)
(*         quote that nothing closes) or "none".  A quote inside a word is a *)
(*         character like any other to shlex.split(posix=False).             *)
(***************************************************************************)
EXTENDS Sequences, SequencesExt

Word(kind, path) == [kind |-> kind, path |-> path, quote |-> "none"]

Quoted(kind) == [kind |-> kind, path |-> "none", quote |-> "closed"]

OpenQuote == [kind |-> "other", path |-> "none", quote |-> "open"]
-----------------------------------------------------------------------------
(* The clients *)

\* os.getcwd() + "/" + name on the remote host; absolute names as they are.
Located(path, cwd) == IF path = "rel" THEN cwd ELSE path

\* e.py.  request is the name it is called by ("e", or anything else, such as
\* d); path is the class of argv[1], or "none" when there is no argument; on
\* Windows itself (remote = FALSE) a relative name stays relative.  Every
\* program that e.py picks by extension is an .exe, in quotes.  rest is what
\* follows the first blank of a file name that has one.
EText(request, path, cwd, remote, rest) ==
  IF path = "none"
    THEN <<Word("explorer", "none"), Word("other", cwd)>> \o rest
    ELSE << IF request = "e" THEN Quoted("exe") ELSE Word("other", "none"),
            Word("other", IF remote THEN Located(path, cwd) ELSE path) >> \o rest

\* ee.py: the Tortoise program with a /command: word and a /path: word.
EEText(cwd, rest) ==
  <<Quoted("exe"), Word("other", "none"), Word("other", cwd)>> \o rest

\* What a file name may have after its first blank: nothing, a plain word or
\* one that begins with a quote.
Rests == { <<>>, <<Word("other", "none")>>, <<OpenQuote>> }

Cwds == {"home", "prj", "abs"}

\* Every command by which e and ee open a file or directory of the remote host.
FileTexts ==
  { EText("e", at.path, at.cwd, TRUE, at.rest) :
      at \in [path : {"none", "rel", "home", "prj", "abs"}, cwd : Cwds, rest : Rests] }
  \cup { EEText(at.cwd, at.rest) : at \in [cwd : Cwds, rest : Rests] }

\* eee.py (and script/runccc through it): the arguments joined by blanks.  An
\* argument is itself a sequence of words: the ones between its own blanks.
EEEText(args) == FlattenSeq(args)
-----------------------------------------------------------------------------
(* The listener *)

\* shlex.split raises ValueError: the quotes do not match.
Broken(text) == \E k \in DOMAIN text : text[k].quote = "open"

\* What args[0] is to the tests.  cmd.split(), which takes over when the quotes
\* do not match, leaves a program in quotes cut at its first blank, or with its
\* closing quote at the end: no .exe.
FirstArg(text) ==
  IF Broken(text) /\ text[1].quote = "closed" THEN "other" ELSE text[1].kind

\* The test that decides what is done with a command, in the code's order.
\* The nfs, python and byebye tests look at the text itself, quotes and all.
Branch(text) ==
  CASE text = <<>>                            -> "index_error"  \* args[0]
    [] text # <<>> /\ text[1].path = "prj"    -> "nfs"
    [] text # <<>> /\ text[1].path # "prj" /\ FirstArg(text) \in {"explorer", "exe"}
                                              -> FirstArg(text)
    [] Len(text) > 1 /\ text[1] = Word("python", "none")
                                              -> "python"
    [] text = <<Word("byebye", "none")>>      -> "byebye"
    [] OTHER                                  -> "other"

\* cmd.replace("/home/", "\\ip\"), wherever it occurs.
Samba(word) ==
  IF word.path \in {"home", "prj"} THEN [word EXCEPT !.path = "smb"] ELSE word

\* Mutant: only the first word is rewritten, in every branch.
Rewrite_FirstWordOnly(text) ==
  CASE Branch(text) = "nfs" -> [text EXCEPT ![1].path = "nfs"]
    [] Branch(text) \in {"explorer", "exe", "python"} -> [text EXCEPT ![1] = Samba(@)]
    [] OTHER -> text

\* What the chosen branch runs.  The nfs branch puts \\ip before the text and
\* so changes its first word only (the result of args[0].replace is dropped);
\* the last branch runs the text as it came.
Rewrite(text) ==
  CASE Branch(text) = "nfs" -> [text EXCEPT ![1].path = "nfs"]
    [] Branch(text) \in {"explorer", "exe", "python"} ->
         [k \in DOMAIN text |-> Samba(text[k])]
    [] OTHER -> text

\* A program in quotes and a later quote that does not match: the listener does
\* not see the .exe and runs the text as it came.
Garbled(text) == Broken(text) /\ text[1].quote = "closed"

\* No word of text names a file of the Linux host by its name there.
Translated(text) == \A k \in DOMAIN text : text[k].path \notin {"home", "prj", "abs"}
=============================================================================
