----------------------------- MODULE ProjectEnv -----------------------------
(***************************************************************************)
(* The project environment of a shell, dot/hidvr.aliases.sh.  Which        *)
(* project (branch) and which recorder model is worked on is kept in three *)
(* files that all shells share, bin/myprj, etc/hi.conf and etc/hi.model;   *)
(* what follows from them (the build directory and the SoC letter) is kept *)
(* in each shell's variables.  config_prj writes the files and brings its  *)
(* own shell up to date, a new shell reads them, and aliases such as k run *)
(* sbldenv again.  Other shells are not told.                              *)
(*                                                                         *)
(* The project's own edvr_hddvr_hisilicon_env.sh is external: it defines a *)
(* function set_<model>_specific_env for each model it knows, and, run     *)
(* with a model id, sets WHBS_BUILD_SOCID or, if it does not know the      *)
(* model, exits (which ends the shell that sources it).                    *)
(*                                                                         *)
(* Every step below reads or writes one file.  The echo of one line into a *)
(* file is one step: who reads the empty file between its redirect and its *)
(* output meets a config_prj half way, of which nothing is claimed below.  *)
(* The extraction of a project's functions is not: line 314 tests, empties *)
(* and fills the file in steps of their own.                               *)
(***************************************************************************)
EXTENDS Naturals, FiniteSets

CONSTANTS
  Shell, Project, Model,
  ModelId,     \* what model_id makes of each model's name
  Soc,         \* Soc[p][id]: the SoC letter of model id in project p, or NoSoc
  Tree,        \* the build trees ~/prj/dvrtop/<project><letter> that exist
  Extracted,   \* the projects whose functions some earlier shell has extracted
  Torn,        \* the sets of models whose functions an incomplete file may define
  MaxCommands  \* bound on calls of config_prj

NoSoc == ""
PC == "PC"
Unset == "unset"
Letter == UNION { {Soc[p][ModelId[m]] : m \in Model} : p \in Project }

ASSUME BoundAssumption == MaxCommands \in Nat
ASSUME ProjectAssumption == Unset \notin Project /\ Extracted \subseteq Project
ASSUME TornAssumption == Torn \subseteq SUBSET Model
ASSUME ModelIdAssumption ==
  /\ DOMAIN ModelId = Model
  /\ {PC, Unset} \cap {ModelId[m] : m \in Model} = {}
ASSUME TreeAssumption == Tree \subseteq Project \X (Letter \ {NoSoc})

\* The arguments of config_prj that do more than print a question: a model, which
\* the project may not know; wrns, the PC version, takes none.
Command ==
  [prj : Project \ {"wrns"}, model : Model] \cup [prj : Project \cap {"wrns"}, model : {Unset}]
NoCommand == [prj |-> Unset, model |-> Unset]
SocOf(c) == Soc[c.prj][ModelId[c.model]]
ConfOf(c) == IF c.prj = "wrns" THEN PC ELSE ModelId[c.model]

VARIABLES
  myprj, hiconf, himodel,   \* the files
  present,     \* the projects p with a file etc/model_specific_env.p
  extracted,   \* those whose file is whole
  link,        \* the letter of the trunk tree external_library points to
  pc,          \* what each shell does next
  job,         \* what it is doing: "start", "config" or "k"
  cmd,         \* the arguments of its config_prj, if its last job was one
  var,         \* its variables, see NewShell
  warned,      \* history: what line 247 found last, "match" or "mismatch"
  solo,        \* history: no other shell did the same (config_prj, or come up)
               \* during its last job
  settled,     \* history: the command that the three files stem from
  again,       \* history: its last two config_prj were alone and the same, and
               \* the first found the project's model functions
  commands     \* calls of config_prj so far

functions == <<present, extracted>>
files == <<myprj, hiconf, himodel, functions>>
history == <<warned, solo, settled, again>>
vars == <<files, link, pc, job, cmd, var, history, commands>>

\* defs[m] is the project whose set_<m>_specific_env the shell has sourced
\* last; bld is Myprj_bld.
NewShell == [ Myprj |-> Unset, Hiconf |-> Unset, socid |-> NoSoc,
              bld |-> <<Unset, NoSoc>>, defs |-> [m \in Model |-> Unset] ]

\* The files stem from some config_prj before.
Init ==
  /\ settled \in Command
  /\ myprj = settled.prj
  /\ hiconf = ConfOf(settled)
  /\ himodel \in IF settled.prj = "wrns" THEN Model ELSE {settled.model}
  /\ present = Extracted /\ extracted = Extracted /\ commands = 0
  /\ link = NoSoc
  /\ pc = [s \in Shell |-> "closed"]
  /\ job = [s \in Shell |-> "start"]
  /\ cmd = [s \in Shell |-> NoCommand]
  /\ var = [s \in Shell |-> NewShell]
  /\ warned = [s \in Shell |-> "match"]
  /\ solo = [s \in Shell |-> TRUE]
  /\ again = [s \in Shell |-> FALSE]
-----------------------------------------------------------------------------
Busy(s) == pc[s] \notin {"closed", "ready", "exited"}
Doing(s, j) == Busy(s) /\ job[s] = j
Step(s, from, to) == pc[s] = from /\ pc' = [pc EXCEPT ![s] = to]

\* Those that s, beginning job j, meets at the same; any number may do k.
Rivals(s, j) == {t \in Shell \ {s} : j # "k" /\ Doing(t, j)}

Begin(s, j) ==
  /\ job' = [job EXCEPT ![s] = j]
  /\ solo' = [t \in Shell |->
       IF t = s THEN Rivals(s, j) = {} ELSE solo[t] /\ t \notin Rivals(s, j)]
  /\ warned' = [warned EXCEPT ![s] = "match"]

\* A new shell sources the file: line 301.
Open(s) ==
  /\ Step(s, "closed", "read_prj")
  /\ Begin(s, "start")
  /\ UNCHANGED <<files, link, cmd, var, settled, again, commands>>

\* config_prj is called: line 222.
Config(s, c) ==
  /\ commands < MaxCommands
  /\ commands' = commands + 1
  /\ Step(s, "ready", "write_prj")
  /\ Begin(s, "config")
  /\ cmd' = [cmd EXCEPT ![s] = c]
  /\ again' = [again EXCEPT ![s] = settled = c /\ cmd[s] = c /\ solo[s]
                                   /\ c.prj # "wrns" /\ var[s].defs[c.model] = c.prj]
  /\ UNCHANGED <<files, link, var, settled>>

\* An alias that ends in sbldenv: lines 122 to 126.
K(s) ==
  /\ Step(s, "ready", "read_conf")
  /\ Begin(s, "k")
  /\ cmd' = [cmd EXCEPT ![s] = NoCommand]
  /\ again' = [again EXCEPT ![s] = FALSE]
  /\ UNCHANGED <<files, link, var, settled, commands>>

\* Lines 224 and 230.
WritePrj(s) ==
  /\ Step(s, "write_prj", "write_conf")
  /\ myprj' = cmd[s].prj
  /\ settled' = NoCommand
  /\ UNCHANGED <<hiconf, himodel, functions, link, job, cmd, var, warned, solo, again, commands>>

\* Lines 225 and 231.
WriteConf(s) ==
  /\ Step(s, "write_conf", IF cmd[s].prj = "wrns" THEN "read_prj" ELSE "write_model")
  /\ hiconf' = ConfOf(cmd[s])
  /\ settled' = IF cmd[s].prj = "wrns" /\ solo[s] THEN cmd[s] ELSE settled
  /\ UNCHANGED <<myprj, himodel, functions, link, job, cmd, var, warned, solo, again, commands>>

\* Mutant: hi.model is forgotten.
WriteModel_Forgotten(s) ==
  /\ Step(s, "write_model", "read_prj")
  /\ settled' = IF solo[s] THEN cmd[s] ELSE settled
  /\ UNCHANGED <<files, link, job, cmd, var, warned, solo, again, commands>>

\* Line 226.
WriteModel(s) ==
  /\ Step(s, "write_model", "read_prj")
  /\ himodel' = cmd[s].model
  /\ settled' = IF solo[s] THEN cmd[s] ELSE settled
  /\ UNCHANGED <<myprj, hiconf, functions, link, job, cmd, var, warned, solo, again, commands>>

\* Lines 238 and 301.
ReadPrj(s) ==
  /\ Step(s, "read_prj", IF job[s] = "start" THEN "extract" ELSE "sprjenv")
  /\ var' = [var EXCEPT ![s].Myprj = myprj]
  /\ UNCHANGED <<files, link, job, cmd, history, commands>>

\* Line 314, in a new shell only: is the file there ...
Extract(s) ==
  /\ Step(s, "extract", IF var[s].Myprj \in present THEN "source_model_env" ELSE "truncate")
  /\ UNCHANGED <<files, link, job, cmd, var, history, commands>>

\* ... if not, the redirect makes it, or empties what another has written since,
Truncate(s) ==
  /\ Step(s, "truncate", "sed")
  /\ present' = present \cup {var[s].Myprj}
  /\ extracted' = extracted \ {var[s].Myprj}
  /\ UNCHANGED <<myprj, hiconf, himodel, link, job, cmd, var, history, commands>>

\* ... and sed fills it, unless it fails.
Sed(s) ==
  /\ Step(s, "sed", "source_model_env")
  /\ extracted' \in {extracted, extracted \cup {var[s].Myprj}}
  /\ UNCHANGED <<myprj, hiconf, himodel, present, link, job, cmd, var, history, commands>>

\* Lines 241 and 326.  A file that is not whole defines what is there so far;
\* functions of other projects stay defined.
SourceModelEnv(s) ==
  /\ Step(s, "source_model_env", IF job[s] = "start" THEN "sprjenv" ELSE "read_conf")
  /\ \E sourced \in IF var[s].Myprj \in extracted THEN {Model}
                    ELSE IF var[s].Myprj \in present THEN Torn ELSE {{}} :
       var' = [var EXCEPT ![s].defs = [m \in Model |->
         IF m \in sourced /\ Soc[var[s].Myprj][ModelId[m]] # NoSoc THEN var[s].Myprj ELSE @[m]]]
  /\ UNCHANGED <<files, link, job, cmd, history, commands>>

\* The letter after set_<model>_specific_env and set_console_socid: the old
\* one when the shell has no such function.
SocidFor(s, m) ==
  IF var[s].defs[m] = Unset THEN var[s].socid ELSE Soc[var[s].defs[m]][ModelId[m]]

\* Mutant: the build directory is put together before the model is set.
Sprjenv_BldFirst(s) ==
  /\ Step(s, "sprjenv", IF job[s] = "start" THEN "ready" ELSE "source_model_env")
  /\ LET letter == IF var[s].Hiconf = PC THEN var[s].socid ELSE SocidFor(s, himodel) IN
       var' = [var EXCEPT ![s].socid = letter, ![s].bld = <<var[s].Myprj, var[s].socid>>]
  /\ UNCHANGED <<files, link, job, cmd, history, commands>>

\* sprjenv, lines 266 to 278.  Its Hiconf is the one of before config_prj.
Sprjenv(s) ==
  /\ Step(s, "sprjenv", IF job[s] = "start" THEN "ready" ELSE "source_model_env")
  /\ LET letter == IF var[s].Hiconf = PC THEN var[s].socid ELSE SocidFor(s, himodel) IN
       var' = [var EXCEPT ![s].socid = letter, ![s].bld = <<var[s].Myprj, letter>>]
  /\ UNCHANGED <<files, link, job, cmd, history, commands>>

\* sbldenv, lines 281 to 285: it reads hi.conf ...
ReadConf(s) ==
  /\ pc[s] = "read_conf"
  /\ var' = [var EXCEPT ![s].Hiconf = hiconf]
  /\ pc' = [pc EXCEPT ![s] = IF hiconf # PC THEN "build_env"
                             ELSE IF job[s] = "config" THEN "check" ELSE "ready"]
  /\ UNCHANGED <<files, link, job, cmd, history, commands>>

\* Mutant: the script is run, not sourced, and leaves the letter alone.
BuildEnv_Run(s) ==
  /\ pc[s] = "build_env"
  /\ pc' = [pc EXCEPT ![s] = IF job[s] = "config" THEN "check" ELSE "ready"]
  /\ UNCHANGED <<files, link, job, cmd, var, history, commands>>

\* ... and, lines 286 to 294, reads it again for the script of the build tree.
BuildEnv(s) ==
  /\ pc[s] = "build_env"
  /\ LET known == hiconf # PC /\ Soc[var[s].bld[1]][hiconf] # NoSoc
         next == IF job[s] = "config" THEN "check" ELSE "ready" IN
       \/ var[s].bld \notin Tree /\ pc' = [pc EXCEPT ![s] = next] /\ UNCHANGED var
       \/ /\ var[s].bld \in Tree /\ known
          /\ pc' = [pc EXCEPT ![s] = next]
          /\ var' = [var EXCEPT ![s].socid = Soc[var[s].bld[1]][hiconf]]
       \/ var[s].bld \in Tree /\ ~known /\ pc' = [pc EXCEPT ![s] = "exited"] /\ UNCHANGED var
  /\ UNCHANGED <<files, link, job, cmd, history, commands>>

\* Mutant: the link follows the build directory.
Check_LinksBld(s) ==
  /\ Step(s, "check", "ready")
  /\ warned' = [warned EXCEPT ![s] =
       IF var[s].socid # NoSoc /\ var[s].socid = var[s].bld[2] THEN "match" ELSE "mismatch"]
  /\ link' = IF var[s].socid # NoSoc /\ var[s].Myprj = "trunk" THEN var[s].bld[2] ELSE link
  /\ UNCHANGED <<files, job, cmd, var, solo, settled, again, commands>>

\* Lines 247 to 260: is the letter the last one of the build directory?
Check(s) ==
  /\ Step(s, "check", "ready")
  /\ warned' = [warned EXCEPT ![s] =
       IF var[s].socid # NoSoc /\ var[s].socid = var[s].bld[2] THEN "match" ELSE "mismatch"]
  /\ link' = IF var[s].socid # NoSoc /\ var[s].Myprj = "trunk" THEN var[s].socid ELSE link
  /\ UNCHANGED <<files, job, cmd, var, solo, settled, again, commands>>

\* The shell is closed, at any step.
Close(s) ==
  /\ pc[s] # "closed"
  /\ pc' = [pc EXCEPT ![s] = "closed"]
  /\ var' = [var EXCEPT ![s] = NewShell]
  /\ cmd' = [cmd EXCEPT ![s] = NoCommand]
  /\ job' = [job EXCEPT ![s] = "start"]
  /\ solo' = [solo EXCEPT ![s] = TRUE]
  /\ warned' = [warned EXCEPT ![s] = "match"]
  /\ again' = [again EXCEPT ![s] = FALSE]
  /\ UNCHANGED <<files, link, settled, commands>>

Next ==
  \E s \in Shell :
    \/ Open(s) \/ Close(s) \/ K(s) \/ \E c \in Command : Config(s, c)
    \/ WritePrj(s) \/ WriteConf(s) \/ WriteModel(s)
    \/ ReadPrj(s) \/ Extract(s) \/ Truncate(s) \/ Sed(s) \/ SourceModelEnv(s) \/ Sprjenv(s)
    \/ ReadConf(s) \/ BuildEnv(s) \/ Check(s)

Spec == Init /\ [][Next]_vars
-----------------------------------------------------------------------------
\* Type invariant.
TypeOK ==
  /\ myprj \in Project /\ present \subseteq Project /\ extracted \subseteq present
  /\ hiconf \in {ModelId[m] : m \in Model} \cup {PC}
  /\ himodel \in Model
  /\ link \in Letter \cup {NoSoc}
  /\ job \in [Shell -> {"start", "config", "k"}]
  /\ cmd \in [Shell -> Command \cup {NoCommand}]
  /\ var \in [Shell ->
       [ Myprj : Project \cup {Unset},
         Hiconf : {ModelId[m] : m \in Model} \cup {PC, Unset},
         socid : Letter \cup {NoSoc},
         bld : (Project \cup {Unset}) \X (Letter \cup {NoSoc}),
         defs : [Model -> Project \cup {Unset}] ]]
  /\ warned \in [Shell -> {"match", "mismatch"}]
  /\ {solo, again} \subseteq [Shell -> BOOLEAN]
  /\ settled \in Command \cup {NoCommand}
  /\ commands \in 0..MaxCommands

\* The shell's variables are those of command c.
Agrees(s, c) ==
  /\ var[s].Myprj = c.prj
  /\ var[s].bld = <<c.prj, SocOf(c)>>
  /\ var[s].socid = SocOf(c)

\* The check of line 247 is enough: sprjenv works with the old Hiconf and the
\* old project's model functions and so may come out with the wrong build
\* directory, but a config_prj that no other overlaps and that does not complain
\* has set everything for its arguments (if the build tree is there at all).
SilenceMeansRight ==
  \A s \in Shell :
    pc[s] = "ready" /\ job[s] = "config" /\ solo[s] /\ warned[s] = "match"
      /\ cmd[s].prj # "wrns" /\ var[s].bld \in Tree
      => Agrees(s, cmd[s])

\* Doing it once more helps: the second config_prj of a project whose model
\* functions the first has sourced does not complain.
SecondTimeRight ==
  \A s \in Shell :
    pc[s] = "ready" /\ job[s] = "config" /\ solo[s] /\ again[s]
      => warned[s] = "match" /\ Agrees(s, cmd[s])

\* A new shell comes up for the command the files were last set by, whatever
\* the shells before it went through and even if another config_prj ran since
\* it read bin/myprj, as long as that was for the same project.  Two shells that
\* come up at the same time may spoil this for each other, and an extraction that
\* failed or was cut off for every later one: line 314 does not repeat it.
NewShellRight ==
  [][\A s \in Shell :
       job[s] = "start" /\ solo[s] /\ var[s].Myprj \in extracted
         /\ settled \in Command /\ settled.prj # "wrns" /\ var[s].Myprj = settled.prj
         /\ Sprjenv(s)
         => Agrees(s, settled)']_vars

\* A config_prj of the trunk that no other overlaps links external_library to the
\* tree of the model asked for, even if the check complains, and never to another
\* model's: only where the build directory that sprjenv put together is missing,
\* which line 291 reports and nothing stops, it leaves the link as it is or lets
\* it point to a tree that is not there, even if the check is silent.
LinkRight ==
  [][\A s \in Shell :
       solo[s] /\ cmd[s].prj = "trunk" /\ Check(s)
         => \/ link' = SocOf(cmd[s])
            \/ var[s].bld \notin Tree /\ (link' = link \/ <<"trunk", link'>> \notin Tree)]_vars
=============================================================================
