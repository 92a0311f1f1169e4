---------------------------- MODULE ServiceInstall ----------------------------
(***************************************************************************)
(* The install, update and remove commands of a service's own program:     *)
(* HandleCommandLine of win32/Lib/win32serviceutil.py with InstallService, *)
(* ChangeServiceConfig and RemoveService, cut at their calls of the SCM    *)
(* and of the registry, any of which may fail.                             *)
(*                                                                         *)
(* One administrator gives any sequence of commands, while the service is  *)
(* started and stopped and other programs hold handles to it, which keeps  *)
(* a deleted service in the SCM, "marked for deletion".                    *)
(***************************************************************************)
CONSTANT
  Startups   \* the values of --startup that are used; NoStartup is "not given"

NoStartup == "none"

ASSUME StartupAssumption ==
  Startups \subseteq {NoStartup, "manual", "auto", "delayed", "disabled"}

VARIABLES
  service,     \* SCM: "absent", "installed" or "marked" for deletion
  running,     \* SCM: the service runs
  elsewhere,   \* SCM: another program has a handle to the service
  entry,       \* the service's configuration and registry key, or NoEntry
  counters,    \* the texts of its performance counters are loaded
  cmd          \* HandleCommandLine: the command it executes or executed last

scmVars     == <<service, running, elsewhere, entry>>
installVars == <<scmVars, counters, cmd>>

NoEntry == [start |-> NoStartup]

(* The start types of --startup: "delayed" is AUTO_START with a flag.      *)
StartType(startup) == IF startup = "delayed" THEN "auto" ELSE startup

InstallInit ==
  /\ service = "absent" /\ running = FALSE /\ elsewhere = FALSE
  /\ entry = NoEntry /\ counters = FALSE
  /\ cmd = [step |-> "returned", begun |-> "none", arg |-> "none",
            startup |-> NoStartup, perf |-> FALSE, found |-> "absent",
            raised |-> {}, warned |-> {}, result |-> "none"]

-----------------------------------------------------------------------------
(* The steps of a command and its exceptions.                              *)

At(step) == cmd.step = step
Go(step) == cmd' = [cmd EXCEPT !.step = step]

(* A failure that the code prints or ignores: of what, and on to the step. *)
Warn(what, step) == cmd' = [cmd EXCEPT !.step = step, !.warned = @ \cup {what}]

ReturnCode(code) == cmd' = [cmd EXCEPT !.step = "returned", !.result = code]

Error == [cmd EXCEPT !.step = "returned", !.result = "error"]

(* "Fall through to the "update" param!"                                   *)
FallThrough == [cmd EXCEPT !.arg = "update", !.step = "unload"]

(* An SCM or registry error is caught and its code returned, except that   *)
(* the install command takes ERROR_SERVICE_EXISTS, whoever raises it, for  *)
(* a service to update.  ValueError is caught by the install command       *)
(* alone, which then removes the service; anything else leaves             *)
(* HandleCommandLine.                                                      *)
MutRemoveOnUpdate(exc) ==
  cmd' = [ IF exc = "ValueError" THEN [cmd EXCEPT !.step = "unload", !.arg = "install"]
           ELSE IF exc = "exists" /\ cmd.arg = "install" THEN FallThrough
           ELSE IF exc \in {"win32", "exists"} THEN Error
           ELSE [Error EXCEPT !.result = "exception"]
         EXCEPT !.raised = @ \cup {exc} ]
MutLeaveIt(exc) ==
  cmd' = [ IF exc = "exists" /\ cmd.arg = "install" THEN FallThrough
           ELSE IF exc \in {"win32", "exists", "ValueError"} THEN Error
           ELSE [Error EXCEPT !.result = "exception"]
         EXCEPT !.raised = @ \cup {exc} ]
Raise(exc) ==
  cmd' = [ IF exc = "ValueError" /\ cmd.arg = "install" THEN [cmd EXCEPT !.step = "unload"]
           ELSE IF exc = "exists" /\ cmd.arg = "install" THEN FallThrough
           ELSE IF exc \in {"win32", "exists"} THEN Error
           ELSE [Error EXCEPT !.result = "exception"]
         EXCEPT !.raised = @ \cup {exc} ]

Command(arg, startup, perf) ==
  /\ At("returned")
  /\ cmd' = [step |-> IF arg = "install" THEN "create" ELSE "unload",
             begun |-> arg, arg |-> arg, startup |-> startup, perf |-> perf,
             found |-> service, raised |-> {}, warned |-> {}, result |-> "none"]
  /\ UNCHANGED <<scmVars, counters>>

-----------------------------------------------------------------------------
(* InstallService and ChangeServiceConfig.                                 *)

(* CreateService.  The pythonservice.exe that it needs may be missing,     *)
(* which is a RuntimeError.                                                *)
MutRefuseExisting ==
  /\ At("create")
  /\ \/ /\ \/ service # "absent" /\ cmd' = Error
           \/ \E exc \in {"win32", "other"} : Raise(exc)
        /\ UNCHANGED <<service, entry>>
     \/ /\ service = "absent" /\ service' = "installed"
        /\ entry' = [start |-> IF cmd.startup = NoStartup THEN "manual"
                               ELSE StartType(cmd.startup),
                     delayed |-> FALSE, class |-> FALSE, option |-> FALSE]
        /\ Go("describe")
  /\ UNCHANGED <<running, elsewhere, counters>>
Create ==
  /\ At("create")
  /\ \/ /\ \/ service = "installed" /\ cmd' = FallThrough
           \/ service = "marked" /\ cmd' = Error
           \/ \E exc \in {"win32", "other"} : Raise(exc)
        /\ UNCHANGED <<service, entry>>
     \/ /\ service = "absent" /\ service' = "installed"
        /\ entry' = [start |-> IF cmd.startup = NoStartup THEN "manual"
                               ELSE StartType(cmd.startup),
                     delayed |-> FALSE, class |-> FALSE, option |-> FALSE]
        /\ Go("describe")
  /\ UNCHANGED <<running, elsewhere, counters>>

(* UnloadPerfCounterTextStrings, "before doing anything"; "remove" and the *)
(* removal of a service that could not be installed begin with it too.     *)
Unload ==
  LET next == IF cmd.arg = "update" THEN "change" ELSE "delete"
  IN  /\ At("unload")
      /\ \/ counters' = FALSE /\ Go(next)
         \/ Warn("unload", next) /\ UNCHANGED counters
      /\ UNCHANGED scmVars

(* ChangeServiceConfig: what was not asked for is SERVICE_NO_CHANGE.       *)
MutChangeUnopened ==
  /\ At("change")
  /\ \/ (\E exc \in {"win32", "other"} : Raise(exc)) /\ UNCHANGED entry
     \/ /\ entry' = IF cmd.startup = NoStartup THEN entry
                    ELSE [entry EXCEPT !.start = StartType(cmd.startup)]
        /\ Go("describe")
  /\ UNCHANGED <<service, running, elsewhere, counters>>
Change ==
  /\ At("change")
  /\ \/ /\ \/ service # "installed" /\ cmd' = Error
           \/ \E exc \in {"win32", "other"} : Raise(exc)
        /\ UNCHANGED entry
     \/ /\ service = "installed"
        /\ entry' = IF cmd.startup = NoStartup THEN entry
                    ELSE [entry EXCEPT !.start = StartType(cmd.startup)]
        /\ Go("describe")
  /\ UNCHANGED <<service, running, elsewhere, counters>>

(* ChangeServiceConfig2, for the description and the delayed start.        *)
Describe ==
  /\ At("describe") /\ (Go("delay") \/ Raise("win32"))
  /\ UNCHANGED <<scmVars, counters>>

(* "Changing Delayed Auto-Start config may be restricted": a failure is    *)
(* warned of when it was to be set and ignored when it was to be taken back.*)
MutOnlySetDelay ==
  /\ At("delay")
  /\ IF cmd.startup = "delayed"
     THEN \/ entry' = [entry EXCEPT !.delayed = TRUE] /\ Go("class")
          \/ Warn("delay", "class") /\ UNCHANGED entry
     ELSE Go("class") /\ UNCHANGED entry
  /\ UNCHANGED <<service, running, elsewhere, counters>>
Delay ==
  /\ At("delay")
  /\ IF cmd.startup \in {"delayed", "auto"}
     THEN \/ entry' = [entry EXCEPT !.delayed = (cmd.startup = "delayed")] /\ Go("class")
          \/ Warn("delay", "class") /\ UNCHANGED entry
     ELSE Go("class") /\ UNCHANGED entry
  /\ UNCHANGED <<service, running, elsewhere, counters>>

InstallPythonClassString ==
  /\ At("class")
  /\ \/ entry' = [entry EXCEPT !.class = TRUE]
        /\ Go(IF cmd.perf THEN "perfmon" ELSE "options")
     \/ Raise("win32") /\ UNCHANGED entry
  /\ UNCHANGED <<service, running, elsewhere, counters>>

(* The DLL may not be found, which is a ValueError; counters that cannot   *)
(* be loaded are only printed.  The module perfmon or the directory of the *)
(* .ini file may be missing, and the old directory when the counters are   *)
(* loaded.                                                                 *)
InstallPerfmonForService ==
  /\ At("perfmon")
  /\ \/ counters' = TRUE /\ Go("options")
     \/ Warn("counters", "options") /\ UNCHANGED counters
     \/ (\E exc \in {"win32", "ValueError"} : Raise(exc)) /\ UNCHANGED counters
     \/ Raise("other") /\ counters' \in {counters, TRUE}
  /\ UNCHANGED scmVars

(* customOptionHandler, which keeps its options in the service's registry  *)
(* key (SetServiceCustomOption) and may object to what it is given, or     *)
(* install a service of its own that exists.                               *)
CustomOptions ==
  /\ At("options")
  /\ \/ entry' = [entry EXCEPT !.option = TRUE] /\ ReturnCode("ok")
     \/ (\E exc \in {"win32", "exists", "ValueError", "other"} : Raise(exc))
        /\ UNCHANGED entry
  /\ UNCHANGED <<service, running, elsewhere, counters>>

-----------------------------------------------------------------------------
(* RemoveService.                                                          *)

(* The SCM forgets a deleted service, and its registry key, when it has    *)
(* stopped and the last handle is closed.                                  *)
Settle(deleted, runs, held) ==
  /\ running' = runs /\ elsewhere' = held
  /\ IF deleted /\ ~ runs /\ ~ held
     THEN service' = "absent" /\ entry' = NoEntry
     ELSE service' = (IF deleted THEN "marked" ELSE service) /\ UNCHANGED entry

(* In the cleanup of an installation the result is an error in any case,   *)
(* and a removal that fails is only printed.                               *)
Refused == IF cmd.arg = "remove" THEN Error
           ELSE [Error EXCEPT !.warned = @ \cup {"remove"}]

Delete ==
  /\ At("delete")
  /\ \/ service # "installed" /\ cmd' = Refused /\ UNCHANGED scmVars
     \/ cmd' = [Refused EXCEPT !.raised = @ \cup {"win32"}] /\ UNCHANGED scmVars
     \/ /\ service = "installed" /\ Settle(TRUE, running, elsewhere)
        /\ ReturnCode(IF cmd.arg = "remove" THEN "ok" ELSE "error")
  /\ UNCHANGED counters

-----------------------------------------------------------------------------
(* The service itself and other programs.                                  *)

ServiceRuns ==
  /\ service = "installed" /\ ~ running /\ entry.start # "disabled" /\ entry.class
  /\ running' = TRUE
  /\ UNCHANGED <<service, elsewhere, entry, counters, cmd>>

ServiceStops ==
  /\ running /\ Settle(service = "marked", FALSE, elsewhere)
  /\ UNCHANGED <<counters, cmd>>

OthersOpen ==
  /\ service # "absent" /\ ~ elsewhere /\ elsewhere' = TRUE
  /\ UNCHANGED <<service, running, entry, counters, cmd>>

OthersClose ==
  /\ elsewhere /\ Settle(service = "marked", running, FALSE)
  /\ UNCHANGED <<counters, cmd>>

HandleCommandLine ==
  \/ \E startup \in Startups, perf \in BOOLEAN :
       Command("install", startup, perf) \/ Command("update", startup, perf)
  \/ Command("remove", NoStartup, FALSE)
  \/ Create \/ Unload \/ Change \/ Describe \/ Delay
  \/ InstallPythonClassString \/ InstallPerfmonForService \/ CustomOptions
  \/ Delete

InstallNext == HandleCommandLine \/ ServiceRuns \/ ServiceStops \/ OthersOpen \/ OthersClose

InstallSpec == InstallInit /\ [][InstallNext]_installVars

-----------------------------------------------------------------------------
Steps == {"returned", "create", "unload", "change", "describe", "delay", "class",
          "perfmon", "options", "delete"}
Commands == {"install", "update", "remove"}

Entries == [start : {"manual", "auto", "disabled"}, delayed : BOOLEAN,
            class : BOOLEAN, option : BOOLEAN]

CmdTypeOK ==
  cmd \in [step : Steps, begun : Commands \cup {"none"}, arg : Commands \cup {"none"},
          startup : Startups \cup {NoStartup}, perf : BOOLEAN,
          found : {"absent", "installed", "marked"},
          raised : SUBSET {"win32", "exists", "ValueError", "other"},
          warned : SUBSET {"unload", "delay", "counters", "remove"},
          result : {"none", "ok", "error", "exception"}]

InstallTypeOK ==
  /\ service \in {"absent", "installed", "marked"}
  /\ running \in BOOLEAN /\ elsewhere \in BOOLEAN
  /\ counters \in BOOLEAN
  /\ entry \in IF service = "absent" THEN {NoEntry} ELSE Entries
  /\ CmdTypeOK

Returned(commands) == At("returned") /\ cmd.begun \in commands

(* A command that returns 0 has done what was asked, whatever was left by  *)
(* the commands before it: the service has its class, its options and the  *)
(* start that was given, delayed or not, and it is gone, or will be when   *)
(* nobody uses it, after "remove".  The delayed start, the counters and    *)
(* their removal are excepted only when that very call has failed, which   *)
(* the code prints or ignores.                                             *)
SuccessIsComplete ==
  /\ Returned({"install", "update"}) /\ cmd.result = "ok" =>
       /\ service = "installed" /\ entry.class /\ entry.option
       /\ cmd.startup # NoStartup => entry.start = StartType(cmd.startup)
       /\ cmd.startup \in {"auto", "delayed"} =>
            entry.delayed = (cmd.startup = "delayed") \/ "delay" \in cmd.warned
       /\ cmd.perf => counters \/ "counters" \in cmd.warned
  /\ Returned({"remove"}) /\ cmd.result = "ok" =>
       service # "installed" /\ (counters => "unload" \in cmd.warned)

(* "So the next installation attempt works": an installation in which no   *)
(* call fails succeeds on everything that failed ones may have left, unless *)
(* a deleted service is still in use.                                      *)
NextInstallWorks ==
  Returned({"install"}) /\ cmd.raised = {} /\ cmd.found # "marked" => cmd.result = "ok"

(* "We remove the service if the first bit works, but the second doesn't": *)
(* when the options are refused by a ValueError, nothing of the service    *)
(* that was created is left, unless its removal failed too.                *)
RefusedIsRemoved ==
  Returned({"install"}) /\ cmd.found = "absent" /\ cmd.raised = {"ValueError"} =>
    service # "installed" /\ (counters => "unload" \in cmd.warned)

(* An installation or an update never removes a service that was there     *)
(* before: the removal is for what the same command has created.           *)
KeepsExisting ==
  cmd.found = "installed" /\ cmd.begun \in {"install", "update"} => service = "installed"
=============================================================================
