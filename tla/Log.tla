-------------------------------- MODULE Log ---------------------------------
(***************************************************************************)
(* The loggers and the variable "logs", whose values are sets of LogDefine *)
(* and whose listener LogIniter configures the loggers.  A logger has its  *)
(* level, its formatter and its appenders; an appender without a formatter *)
(* of its own uses the logger's.                                           *)
(***************************************************************************)
EXTENDS Config

CONSTANTS
  LoggerName,     \* names of loggers
  LogKey,         \* "logs"
  LogListener,    \* the listener of LogIniter
  AsDaemon          \* EnvMgr has "d"

\* "logs" is declared with an empty set; the sets are ordered by the names.
ASSUME LogAssumption ==
  /\ LogKey \in Key /\ LogListener \in Listener /\ Default = {}
  /\ \A S \in ConfValue : \A d, e \in S : d.name \in LoggerName /\ (d.name = e.name => d = e)

VARIABLE loggers  \* the loggers, and the define each was last configured with

logVars == <<configVars, loggers>>

\* Patterns: none, valid ones, and one that LogFormatter::init finds an error in.
Valid(pattern) == pattern \notin {"", "invalid"}

NewLogger == [level |-> 1, formatter |-> "default", appenders |-> <<>>, applied |-> {}]

-----------------------------------------------------------------------------
\* LogDefine::operator==, which compares the appenders of d with themselves.
DefineEq(d, e) == d.name = e.name /\ d.level = e.level /\ d.formatter = e.formatter

\* operator== of sets of LogDefine, which are in the order of the names.
DefinesEq(S, T) == \A n \in LoggerName :
  LET d == {x \in S : x.name = n}
      e == {x \in T : x.name = n}
  IN  (d = {} <=> e = {}) /\ \A x \in d, y \in e : DefineEq(x, y)

\* addAppender() of a new appender for each define; no output to the terminal
\* for a daemon.
Appenders(d, formatter) ==
  LET used == SelectSeq(d.appenders, LAMBDA a : ~(a.type = "stdout" /\ AsDaemon))
  IN  [i \in DOMAIN used |->
         [type |-> used[i].type, m_hasFormatter |-> Valid(used[i].formatter),
          formatter |-> IF Valid(used[i].formatter) THEN used[i].formatter ELSE formatter]]

\* setLevel(), setFormatter(), clearAppenders() and addAppender() for a define
\* that is new or was modified.
Configured(logger, d) ==
  LET formatter == IF Valid(d.formatter) THEN d.formatter ELSE logger.formatter
  IN  [level |-> d.level, formatter |-> formatter,
       appenders |-> Appenders(d, formatter), applied |-> {d}]

\* Mutant: clearAppenders() is forgotten.
Deleted_KeepsAppenders(logger) == [logger EXCEPT !.level = 0, !.applied = {}]

\* setLevel(0) and clearAppenders() for a define that was deleted.
Deleted(logger) ==
  [level |-> 0, formatter |-> logger.formatter, appenders |-> <<>>, applied |-> {}]

on_logger_conf_changed(old_value, new_value) ==
  loggers' = [n \in LoggerName |->
    LET new == {d \in new_value : d.name = n}
        old == {d \in old_value : d.name = n}
    IN  CASE new = {} /\ old # {} -> Deleted(loggers[n])
          [] \E d \in new : \A e \in old : ~DefineEq(d, e) ->
               Configured(loggers[n], CHOOSE d \in new : TRUE)
          [] OTHER -> loggers[n]]

-----------------------------------------------------------------------------
\* LogIniter has added its listener when main() begins.
LogInit ==
  /\ declared = {LogKey}
  /\ m_val = [k \in Key |-> Default]
  /\ m_cbs = [k \in Key |-> IF k = LogKey THEN {LogListener} ELSE {}]
  /\ told = [k \in Key |-> [l \in Listener |-> Never]]
  /\ setter = [t \in Thread |-> [set |-> NoSet, yaml |-> <<>>]]
  /\ mixed = [k \in Key |-> [last |-> FALSE, ever |-> FALSE]]
  /\ loggers = [n \in LoggerName |-> NewLogger]

\* The listener of LogIniter changes the loggers, and nothing else does; it is
\* not added again.
LogNext ==
  \/ \E t \in Thread :
       /\ CallListener(t, LogListener)
       /\ on_logger_conf_changed(m_val[LogKey], setter[t].set.v)
  \/ ConfigStep(Listener \ {LogListener}) /\ UNCHANGED loggers

LogSpec == LogInit /\ [][LogNext]_logVars

-----------------------------------------------------------------------------
\* As long as calls of setValue never overlapped, the loggers are configured as
\* "logs" says when its listener is there and nobody sets it: their level, their
\* formatter, and appenders of a define that LogDefine's operator== takes for the
\* one in "logs"; loggers that are no longer named there have no appenders.
LoggersFollow ==
  LogListener \in m_cbs[LogKey] /\ SettersOf(LogKey) = {} /\ ~mixed[LogKey].ever =>
    /\ \A d \in m_val[LogKey] :
         LET logger == loggers[d.name]
         IN  /\ logger.level = d.level
             /\ Valid(d.formatter) => logger.formatter = d.formatter
             /\ \E e \in logger.applied :
                  DefineEq(d, e) /\ logger.appenders = Appenders(e, logger.formatter)
    /\ \A n \in LoggerName : (\A d \in m_val[LogKey] : d.name # n) => loggers[n].appenders = <<>>
=============================================================================
