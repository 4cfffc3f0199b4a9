------------------------------ MODULE StartUp -------------------------------
(***************************************************************************)
(* The start-up of the server process: main (main.cpp) and                 *)
(* CUniteDataModule::StartModule (UniteDataModule.cpp), up to the thread   *)
(* that listens (ServrSocket.cpp).  A step that fails does not keep the    *)
(* next ones from running; main gives up after the last one.  What the     *)
(* database does is in Session, whose process this is.                     *)
(***************************************************************************)

VARIABLES
  main,             \* where main is, or "ended" when there is no process
  Result,           \* of StartModule so far
  m_ConfigXmlFile   \* the elements of the configuration that were loaded

startup == <<main, Result, m_ConfigXmlFile>>

(* The server accepts connections.                                         *)
up == main = "serving"

(* The elements start-up reads.  An attribute that is missing is read as   *)
(* the empty string, which the logger takes and with which the database    *)
(* cannot be reached.                                                      *)
Elements == {"LogConfig", "DBAccess"}

StartUpType ==
  /\ main \in {"ended", "config", "timer", "log", "database", "users", "devices",
               "started", "listening", "serving", "deaf"}
  /\ Result \in BOOLEAN
  /\ m_ConfigXmlFile \subseteq Elements

StartUpInit == main = "ended" /\ Result = TRUE /\ m_ConfigXmlFile = {}

Step(from, to) == main = from /\ main' = to
Failed == Result' = FALSE

(* The process is started again: GetUniteDataModuleInstance.               *)
Execute == Step("ended", "config") /\ UNCHANGED <<Result, m_ConfigXmlFile>>

(* The end of the process, by itself or not.                               *)
End ==
  /\ main # "ended" /\ main' = "ended"
  /\ Result' = TRUE
  /\ m_ConfigXmlFile' = {}

(* A file that is missing, or damaged somewhere, still leaves the elements *)
(* before the damage.                                                      *)
LoadConfigFile ==
  /\ Step("config", "timer")
  /\ m_ConfigXmlFile' \in SUBSET Elements
  /\ Failed \/ UNCHANGED Result

(* pthread_create returns no negative value, so no failure is noticed.     *)
StartTimerModule == Step("timer", "log") /\ UNCHANGED <<Result, m_ConfigXmlFile>>

(* GetConfigXml, then the element itself.                                  *)
LogModuleInit ==
  /\ Step("log", "database")
  /\ \/ "LogConfig" \in m_ConfigXmlFile /\ UNCHANGED Result
     \/ "LogConfig" \notin m_ConfigXmlFile /\ Failed
  /\ UNCHANGED m_ConfigXmlFile

(* DbaModule_Initialize follows, if the element is there.                  *)
DatabaseModuleInit ==
  /\ \/ /\ Step("database", "users")
        /\ "DBAccess" \in m_ConfigXmlFile
        /\ UNCHANGED Result
     \/ /\ Step("database", "started")
        /\ "DBAccess" \notin m_ConfigXmlFile
        /\ Failed
  /\ UNCHANGED m_ConfigXmlFile

(* main returns if anything failed, ...                                    *)
StartModuleFailed == main = "started" /\ ~Result /\ End

(* ... else it gives the callbacks their object and starts the server,     *)
(* which does not say whether it could.                                    *)
StartTcpServer ==
  /\ Step("started", "listening")
  /\ Result
  /\ UNCHANGED <<Result, m_ConfigXmlFile>>

(* The thread listens, or ends and leaves a process that does nothing.     *)
startServrThread ==
  /\ Step("listening", "serving") \/ Step("listening", "deaf")
  /\ UNCHANGED <<Result, m_ConfigXmlFile>>

(* Every step that leaves the database alone and stays in the process.     *)
StartModule ==
  \/ Execute \/ LoadConfigFile \/ StartTimerModule \/ LogModuleInit
  \/ DatabaseModuleInit \/ StartTcpServer \/ startServrThread
=============================================================================
