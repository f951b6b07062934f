------------------------------ MODULE Configs -------------------------------
(***************************************************************************)
(* config.go: where region's .conf file is looked for (findConfig), and    *)
(* which regions there are (runList).                                      *)
(*                                                                         *)
(* A file system fs maps each directory to its state ("open", "missing",   *)
(* "denied", or "unlistable": its files can be reached, not listed) and,   *)
(* for every region, to the kind of its entry <region>.conf: "none",       *)
(* "file", "dir", "link" (to a file) or "dangling" (a link to nothing).    *)
(***************************************************************************)
EXTENDS Naturals, Sequences

CONSTANTS
  Regions,     \* what <region> may be; "" in ".conf"
  UserDirs     \* <<os.UserConfigDir()/vpnproxy/wireguard>>, or <<>> if there is none

ASSUME ConfigsAssumption == UserDirs \in Seq(STRING) /\ Len(UserDirs) <= 1

\* configDirs; "" is a configDir that is not given.
configDirs(configDir) == IF configDir # "" THEN <<configDir>> ELSE <<".">> \o UserDirs

-----------------------------------------------------------------------------
(* findConfig.                                                             *)

\* os.Stat, which follows links, has no error.
Stat(fs, dir, region) ==
  /\ fs[dir].state \in {"open", "unlistable"}
  /\ fs[dir].entries[region] \in {"file", "dir", "link"}

\* Mutant: the current directory only.
HereOnly(fs, region, configDir) ==
  IF Stat(fs, Head(configDirs(configDir)), region) THEN {Head(configDirs(configDir))} ELSE {}

\* The first directory that has it, as a set of at most one.
findConfig(fs, region, configDir) ==
  LET dirs  == configDirs(configDir)
      found == {i \in DOMAIN dirs : Stat(fs, dirs[i], region)}
  IN {dirs[i] : i \in {j \in found : \A k \in found : j <= k}}

-----------------------------------------------------------------------------
(* runList.                                                                *)

\* The directories without their order, of which a list shows nothing.
DirSet(configDir) == {configDirs(configDir)[i] : i \in DOMAIN configDirs(configDir)}

\* entry.IsDir() says what the entry itself is: a link is no directory.
ListedIn(fs, dir) ==
  IF fs[dir].state = "open"
  THEN {r \in Regions \ {""} : fs[dir].entries[r] \in {"file", "link", "dangling"}}
  ELSE {}

\* A directory that is missing is skipped, if it was not asked for.
Skipped(fs, dir, configDir) == configDir = "" /\ fs[dir].state = "missing"

ListFails(fs, configDir) ==
  \E dir \in DirSet(configDir) :
    fs[dir].state # "open" /\ ~Skipped(fs, dir, configDir)

runList(fs, configDir) == UNION {ListedIn(fs, dir) : dir \in DirSet(configDir)}
=============================================================================
