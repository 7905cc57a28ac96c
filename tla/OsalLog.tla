------------------------------ MODULE OsalLog ------------------------------
(***************************************************************************)
(* The log of OSAL, osal/src/posix/util/osal_log.c: where lines go and how *)
(* the log file is rotated.                                                *)
(*                                                                         *)
(* A line is written, and the file rotated before it, in one critical      *)
(* section of g_log_mutex.  LogInit, LogShutdown and the settings take no  *)
(* lock: they are called here while no line is being written.  Every file  *)
(* that fopen makes has a number, in the order they are made; its contents *)
(* are the lines in it, at most MaxLines, one by rotation included.  All   *)
(* of rename, remove and fopen may fail.  There is one path.  Nobody but   *)
(* the program touches the files; what the terminal shows is left out.     *)
(***************************************************************************)
EXTENDS Naturals

CONSTANTS LogLevels,    \* levels that are set and used, within DEBUG..FATAL
          LogSizes,     \* maximal sizes that are set, in lines
          LogCounts,    \* numbers of files that are set
          MaxLogFiles,  \* bound: files ever made
          MaxLines      \* bound: lines in a file

ASSUME LogAssumption ==
  /\ LogSizes \subseteq Nat \ {0}
  /\ LogCounts \subseteq Nat \ {0}
  /\ \E m \in LogCounts : \A n \in LogCounts : n <= m
  /\ MaxLogFiles \in Nat /\ MaxLines \in Nat

VARIABLES
  logLevel,    \* g_log_level
  logOpen,     \* g_log_file is not NULL
  logPath,     \* g_log_file_path is not empty
  maxLogSize,  \* g_max_log_size
  maxLogFiles, \* g_max_log_files
  logNames,    \* the file under each name .k, and the path itself as 0; 0 if none
  logLines,    \* lines in the file under the path
  logMade,     \* the number of the last file made
  logRotated,  \* history: the number of the last file rotated
  logSteady    \* history: no rename has failed and the number of files is the first

logSettings == <<logLevel, maxLogSize, maxLogFiles>>
logVars == <<logSettings, logOpen, logPath, logNames, logLines, logMade, logRotated, logSteady>>

LogSuffixes == 0..(CHOOSE m \in LogCounts : \A n \in LogCounts : n <= m)
LogBackups == LogSuffixes \ {0}

LogInitially ==
  /\ logLevel \in LogLevels
  /\ logOpen = FALSE
  /\ logPath = FALSE
  /\ maxLogSize \in LogSizes
  /\ maxLogFiles \in LogCounts
  /\ logNames = [k \in LogSuffixes |-> 0]
  /\ logLines = 0
  /\ logMade = 0
  /\ logRotated = 0
  /\ logSteady = TRUE

-----------------------------------------------------------------------------
\* fopen of the path to append: a file is made if there is none.
LogFopen(names) ==
  IF names[0] = 0
  THEN /\ logMade < MaxLogFiles
       /\ logMade' = logMade + 1
       /\ logNames' = [names EXCEPT ![0] = logMade + 1]
  ELSE /\ logNames' = names
       /\ UNCHANGED logMade

\* OSAL_LogInit: a file that is open already is never closed.
LogInit(l) ==
  /\ logLevel' = l
  /\ logPath' = TRUE
  /\ \/ logOpen' = TRUE /\ LogFopen(logNames)
     \/ logOpen' = FALSE /\ UNCHANGED <<logNames, logMade>>
  /\ UNCHANGED <<maxLogSize, maxLogFiles, logLines, logRotated, logSteady>>

\* OSAL_LogShutdown.
LogShutdown ==
  /\ logOpen' = FALSE
  /\ UNCHANGED <<logSettings, logPath, logNames, logLines, logMade, logRotated, logSteady>>

\* OSAL_LogSetLevel, which is OSAL_LogInit without a path.
LogSetLevel(l) ==
  /\ logLevel' = l
  /\ UNCHANGED <<maxLogSize, maxLogFiles, logOpen, logPath, logNames, logLines, logMade,
                 logRotated, logSteady>>

LogSetMaxFileSize(n) ==
  /\ maxLogSize' = n
  /\ UNCHANGED <<logLevel, maxLogFiles, logOpen, logPath, logNames, logLines, logMade,
                 logRotated, logSteady>>

LogSetMaxFiles(n) ==
  /\ maxLogFiles' = n
  /\ logSteady' = (logSteady /\ (n = maxLogFiles \/ logRotated = 0))
  /\ UNCHANGED <<logLevel, maxLogSize, logOpen, logPath, logNames, logLines, logMade, logRotated>>

-----------------------------------------------------------------------------
(* rotate_log_file.                                                        *)

\* The oldest is removed, unless that fails.
LogRemoved(names, failed) ==
  IF maxLogFiles \in failed THEN names ELSE [names EXCEPT ![maxLogFiles] = 0]

\* Mutant: the renames go upwards, and each takes what the one before has put there.
MutLogShifted(names, failed) ==
  [k \in LogSuffixes |->
     IF k = maxLogFiles - 1 /\ k > 1 THEN names[1]
     ELSE IF k \in 1..(maxLogFiles - 2) THEN 0 ELSE names[k]]

\* For i from max-1 down to 1 the file .(i-1) becomes .i if it is there and the
\* rename succeeds.  There is no file .0, the path being another name.
LogShifted(names, failed) ==
  LET moves(k) == k \in 1..(maxLogFiles - 2) /\ names[k] # 0 /\ k \notin failed
  IN  [k \in LogSuffixes |->
         IF k > 1 /\ moves(k - 1) THEN names[k - 1] ELSE IF moves(k) THEN 0 ELSE names[k]]

\* The file under the path becomes .1.
LogRetired(names, failed) ==
  IF 0 \in failed \/ names[0] = 0 THEN names ELSE [[names EXCEPT ![1] = names[0]] EXCEPT ![0] = 0]

\* All of it, with the renames and the remove in failed failing; fopen may fail.
Rotate(failed, opened) ==
  LET names == LogRetired(LogShifted(LogRemoved(logNames, failed), failed), failed) IN
  /\ logOpen' = opened
  /\ logRotated' = IF names[0] = 0 THEN logNames[0] ELSE logRotated
  /\ logSteady' = (logSteady /\ failed = {})
  /\ IF opened
     THEN LogFopen(names)
     ELSE logNames' = names /\ UNCHANGED logMade

-----------------------------------------------------------------------------
(* The lines.                                                              *)

\* check_and_rotate_log rotates the file first.
MustRotate == logOpen /\ logPath /\ logLines > maxLogSize

\* A line: log_internal of OSAL_Log, and log_internal_ex of LOG_DEBUG to LOG_FATAL,
\* which also names the place.  The first line of a new file says it was rotated.
LogInternal(l) ==
  /\ l >= logLevel
  /\ \/ /\ MustRotate
        /\ \E failed \in SUBSET (0..maxLogFiles), opened \in BOOLEAN :
             /\ Rotate(failed, opened)
             /\ logLines' = (IF logNames'[0] = logNames[0] THEN logLines ELSE 0)
                            + (IF opened THEN 2 ELSE 0)
     \/ /\ ~MustRotate
        /\ logLines' = IF logOpen THEN logLines + 1 ELSE logLines
        /\ UNCHANGED <<logOpen, logNames, logMade, logRotated, logSteady>>
  /\ logLines' <= MaxLines
  /\ UNCHANGED <<logSettings, logPath>>

-----------------------------------------------------------------------------
LogNext ==
  \/ \E l \in LogLevels : LogInit(l) \/ LogSetLevel(l) \/ LogInternal(l)
  \/ LogShutdown
  \/ \E n \in LogSizes : LogSetMaxFileSize(n)
  \/ \E n \in LogCounts : LogSetMaxFiles(n)

LogSpec == LogInitially /\ [][LogNext]_logVars

-----------------------------------------------------------------------------
(* Properties.                                                             *)

\* The backups a number of files really keeps: the name of the last is not used.
LogDepth(m) == IF m = 1 THEN 1 ELSE m - 1

\* osal_log.c:157-212: of two backups that with the lower suffix is the newer,
\* whatever fails and however the number of files is set; and while nothing fails
\* and the number stays the backups are the last files rotated, with none missing.
LogBackupsInOrder ==
  /\ \A i, j \in LogSuffixes :
       i < j /\ logNames[i] # 0 /\ logNames[j] # 0 => logNames[i] > logNames[j]
  /\ logSteady =>
       \A i \in LogBackups :
         logNames[i] = IF i <= LogDepth(maxLogFiles) /\ i <= logRotated
                       THEN logRotated + 1 - i ELSE 0
=============================================================================
