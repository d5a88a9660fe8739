---------------------------- MODULE Exec_proofs ----------------------------
(***************************************************************************)
(* The exec sessions of Exec for any number of sessions, any use of each   *)
(* and any combination of faults.                                          *)
(***************************************************************************)
EXTENDS Exec, TLAPS

\* A session and its client: nothing runs before the client has started it, a
\* session that was started is never "created" again, and the bundle is taken away
\* only when the session is recorded as ended.
Life(s) ==
    /\ client[s] = "create" => ExecSessions[s] = Nil
    /\ client[s] \in {"create", "start", "force remove"} => process[s] = "none"
    /\ client[s] \in {"attached", "read", "write", "bundle", "report"} => process[s] # "none"
    /\ process[s] = "none" => exitCmd[s] = "none" /\ ~IsRunning(s)
    /\ client[s] = "write" => exitCode[s] \in {"real", "minus one"}
    /\ exitCmd[s] = "bundle" => ~IsRunning(s) /\ Kind(s) # "http"
    /\ client[s] # "done" /\ process[s] # "none" /\ ExecSessions[s] # Nil =>
          ExecSessions[s].State # "created"
    /\ client[s] \in {"bundle", "report", "remove", "force remove"} => ~IsRunning(s)
    /\ client[s] # "done" => (s \in registry <=> ExecSessions[s] # Nil)
    /\ ctrState = "gone" => ExecSessions[s] = Nil
    /\ process[s] # "none" /\ ~bundle[s] /\ mgr.pc # "rm" => ~IsRunning(s)

Lives == \A s \in Sessions : Life(s)

\* The other commands: the session at hand has ended and is recorded as ended.
Managed ==
    /\ mgr.pc \in {"stop bundle", "remove bundle"} => mgr.cur # Nil
    /\ mgr.cur # Nil => process[mgr.cur] = "dead" /\ ~IsRunning(mgr.cur)
    /\ mgr.pc = "stop bundle" => Has("stopexec")
    /\ mgr.pc = "remove bundle" => Has("rmexec")
    /\ mgr.pc = "reap" => Has("reap")
    /\ mgr.pc = "rm" => Has("rm") /\ Has("stop")
    /\ ctrState # "running" => Has("stop")

\* While nobody detaches or is killed, a client that has read the exit code has
\* seen the process end, and no process outlives its container.
Calm == sys.faults \cap {"die", "detach"} = {} /\ ~(Has("rm") /\ Has("restart"))

RecordedOf(s) ==
    /\ process[s] = "alive" => IsRunning(s) /\ ctrState = "running"
    /\ client[s] \in {"read", "write", "bundle", "report", "remove"} => process[s] # "alive"

Recorded ==
    Calm => /\ mgr.pc = "rm" => ctrState # "running"
            /\ \A s \in Sessions : RecordedOf(s)

\* What ExecCode is about: nothing that loses the exit code by design.
Quiet == sys.faults \cap {"slow", "detach", "startfail", "resize"} = {}
Undisturbed(s) == Kind(s) = "http" => sys.faults \cap {"reap", "rmexec", "stopexec"} = {}

Removal == Has("rm") /\ Has("stop")

\* A code other than the real one is recorded only while the container is removed,
\* by a client that fails.
CodeOf(s) ==
    /\ client[s] \in {"create", "start", "attached", "read", "write"} => result[s] = Nil
    /\ client[s] \in {"read", "write"} => process[s] = "dead"
    /\ Kind(s) = "http" /\ client[s] \in {"attached", "read"} /\ ~bundle[s] => Removal
    /\ /\ client[s] = "write" /\ exitCode[s] = "minus one"
       /\ IsRunning(s) \/ Kind(s) = "http"
       => Removal
    /\ ExecSessions[s] # Nil /\ ExecSessions[s].State = "stopped"
          /\ ExecSessions[s].ExitCode # "real"
       => Has("rm") /\ (client[s] = "done" \/ result[s] = "error")
    /\ (\E i \in 1..Len(died[s]) : died[s][i] # "real")
       => Has("rm") /\ (client[s] = "done" \/ result[s] = "error")
    /\ client[s] \in {"bundle", "report", "remove", "done"} /\ process[s] # "none" =>
          result[s] \in {Nil, "real"} \cup (IF MayError(s) THEN {"error"} ELSE {})
    /\ Kind(s) # "health" /\ ExecSessions[s] # Nil /\ ExecSessions[s].State = "stopped" =>
          died[s] # <<>>
    /\ /\ client[s] \in {"attached", "read", "write", "bundle", "report"}
       /\ ExecSessions[s] = Nil /\ ~Has("stop")
       => IF Kind(s) = "health" THEN Has("rmexec") ELSE died[s] # <<>>

CodesReal == Quiet => \A s \in Sessions : Undisturbed(s) => CodeOf(s)

IInv == ExecTypeOK /\ Lives /\ Managed /\ RegistryAgrees /\ Recorded /\ CodesReal

\* A step that leaves a session alone.
Same(t) ==
    /\ ExecSessions'[t] = ExecSessions[t] /\ process'[t] = process[t] /\ bundle'[t] = bundle[t]
    /\ died'[t] = died[t] /\ client'[t] = client[t] /\ exitCode'[t] = exitCode[t]
    /\ result'[t] = result[t] /\ exitCmd'[t] = exitCmd[t]
    /\ t \in registry' <=> t \in registry

---------------------------------------------------------------------------
\* The records a session is set to.
LEMMA SessionFacts ==
    ASSUME ExecConfigured
    PROVE  /\ Created \in Session /\ Created # Nil /\ Created.State = "created"
           /\ Running \in Session /\ Running # Nil /\ Running.State = "running"
           /\ \A code \in Codes : /\ Stopped(code) \in Session /\ Stopped(code) # Nil
                                  /\ Stopped(code).State = "stopped"
                                  /\ Stopped(code).ExitCode = code
           /\ \A r \in Session : /\ r # Nil
                                 /\ [r EXCEPT !.State = "stopped"] \in Session
                                 /\ [r EXCEPT !.State = "stopped"].State = "stopped"
                                 /\ [r EXCEPT !.State = "stopped"] # Nil
<1>1. Created \in Session /\ Running \in Session
  BY Zenon DEF Created, Running, Session, Codes
<1>2. \A code \in Codes : Stopped(code) \in Session
  BY Zenon DEF Stopped, Session
<1>3. \A r \in Session : /\ [r EXCEPT !.State = "stopped"] \in Session
                         /\ [r EXCEPT !.State = "stopped"].State = "stopped"
  BY Zenon DEF Session
<1>4. Created.State = "created" /\ Running.State = "running"
  BY Zenon DEF Created, Running
<1>5. \A code : Stopped(code).State = "stopped" /\ Stopped(code).ExitCode = code
  BY Zenon DEF Stopped
<1>6. \A r \in Session : r # Nil
  BY Zenon DEF ExecConfigured
<1> QED
  BY Zenon, <1>1, <1>2, <1>3, <1>4, <1>5, <1>6

\* What mgr is set to.
LEMMA CommandFacts ==
    /\ NoCmd \in Commands /\ NoCmd.pc = "idle" /\ NoCmd.cur = Nil
    /\ \A s \in Sessions, pc \in {"stop bundle", "remove bundle"} :
          /\ [pc |-> pc, todo |-> {}, cur |-> s] \in Commands
          /\ [pc |-> pc, todo |-> {}, cur |-> s].pc = pc
          /\ [pc |-> pc, todo |-> {}, cur |-> s].cur = s
    /\ \A todo \in SUBSET Sessions, pc \in {"reap", "rm"} :
          /\ [NoCmd EXCEPT !.pc = pc, !.todo = todo] \in Commands
          /\ [NoCmd EXCEPT !.pc = pc, !.todo = todo].pc = pc
          /\ [NoCmd EXCEPT !.pc = pc, !.todo = todo].cur = Nil
    /\ \A m \in Commands : m.todo \subseteq Sessions /\ m.cur \in Sessions \cup {Nil}
    /\ \A m \in Commands, s \in Sessions :
          /\ [m EXCEPT !.todo = @ \ {s}] \in Commands
          /\ [m EXCEPT !.todo = @ \ {s}].pc = m.pc
          /\ [m EXCEPT !.todo = @ \ {s}].cur = m.cur
          /\ [m EXCEPT !.todo = @ \ {s}, !.cur = s] \in Commands
          /\ [m EXCEPT !.todo = @ \ {s}, !.cur = s].pc = m.pc
          /\ [m EXCEPT !.todo = @ \ {s}, !.cur = s].cur = s
<1>1. NoCmd \in Commands /\ NoCmd.pc = "idle" /\ NoCmd.cur = Nil
  BY Zenon DEF NoCmd, Commands
<1>2. ASSUME NEW s \in Sessions, NEW pc \in {"stop bundle", "remove bundle"}
      PROVE  /\ [pc |-> pc, todo |-> {}, cur |-> s] \in Commands
             /\ [pc |-> pc, todo |-> {}, cur |-> s].pc = pc
             /\ [pc |-> pc, todo |-> {}, cur |-> s].cur = s
  BY Zenon DEF Commands
<1>3. ASSUME NEW todo \in SUBSET Sessions, NEW pc \in {"reap", "rm"}
      PROVE  /\ [NoCmd EXCEPT !.pc = pc, !.todo = todo] \in Commands
             /\ [NoCmd EXCEPT !.pc = pc, !.todo = todo].pc = pc
             /\ [NoCmd EXCEPT !.pc = pc, !.todo = todo].cur = Nil
  BY Zenon DEF Commands, NoCmd
<1>4. ASSUME NEW m \in Commands, NEW s \in Sessions
      PROVE  /\ [m EXCEPT !.todo = @ \ {s}] \in Commands
             /\ [m EXCEPT !.todo = @ \ {s}].pc = m.pc
             /\ [m EXCEPT !.todo = @ \ {s}].cur = m.cur
             /\ [m EXCEPT !.todo = @ \ {s}, !.cur = s] \in Commands
             /\ [m EXCEPT !.todo = @ \ {s}, !.cur = s].pc = m.pc
             /\ [m EXCEPT !.todo = @ \ {s}, !.cur = s].cur = s
  BY Zenon DEF Commands
<1>5. ASSUME NEW m \in Commands
      PROVE  m.todo \subseteq Sessions /\ m.cur \in Sessions \cup {Nil}
  BY Zenon DEF Commands
<1> QED
  BY Zenon, <1>1, <1>2, <1>3, <1>4, <1>5

\* The state of a session that exists.
LEMMA StateOf ==
    ASSUME ExecTypeOK, NEW s \in Sessions, ExecSessions[s] # Nil
    PROVE  ExecSessions[s].State \in {"created", "running", "stopped"}
<1>1. ExecSessions \in [Sessions -> Session \cup {Nil}]
  BY Zenon DEF ExecTypeOK
<1>2. ExecSessions[s] \in Session
  BY Zenon, <1>1
<1> QED
  BY Zenon, <1>2 DEF Session

\* One event more.
LEMMA EventFacts ==
    ASSUME NEW q \in Seq(Codes), NEW code \in Codes
    PROVE  /\ Append(q, code) \in Seq(Codes) /\ Append(q, code) # <<>>
           /\ \A i \in 1..Len(Append(q, code)) :
                 Append(q, code)[i] = code \/ (i \in 1..Len(q) /\ Append(q, code)[i] = q[i])
  OBVIOUS

\* The exit code is written to a session that exists and to its events.
LEMMA WriteFacts ==
    ASSUME ExecConfigured, ExecTypeOK, NEW s \in Sessions, NEW code \in Codes, NEW emit \in BOOLEAN,
           justWriteExecExitCode(s, code, emit)
    PROVE  /\ ExecSessions' \in [Sessions -> Session \cup {Nil}]
           /\ died' \in [Sessions -> Seq(Codes)]
           /\ \A t \in Sessions \ {s} : ExecSessions'[t] = ExecSessions[t] /\ died'[t] = died[t]
           /\ ExecSessions[s] = Nil => ExecSessions'[s] = Nil
           /\ ExecSessions[s] # Nil => /\ ExecSessions'[s] # Nil
                                       /\ ExecSessions'[s].State = "stopped"
                                       /\ ExecSessions'[s].ExitCode = code
           /\ emit => /\ died'[s] # <<>>
                      /\ \A i \in 1..Len(died'[s]) : died'[s][i] = code \/
                            (i \in 1..Len(died[s]) /\ died'[s][i] = died[s][i])
           /\ ~emit => died' = died
<1>1. /\ ExecSessions \in [Sessions -> Session \cup {Nil}]
      /\ died \in [Sessions -> Seq(Codes)]
  BY Zenon DEF ExecTypeOK
<1>2. ExecSessions' = [ExecSessions EXCEPT ![s] = IF ExecSessions[s] = Nil THEN Nil ELSE Stopped(code)]
  BY Zenon DEF justWriteExecExitCode
<1>3. Stopped(code) \in Session /\ Stopped(code) # Nil
      /\ Stopped(code).State = "stopped" /\ Stopped(code).ExitCode = code
  BY Zenon, SessionFacts
<1>4. /\ ExecSessions' \in [Sessions -> Session \cup {Nil}]
      /\ \A t \in Sessions \ {s} : ExecSessions'[t] = ExecSessions[t]
      /\ ExecSessions'[s] = IF ExecSessions[s] = Nil THEN Nil ELSE Stopped(code)
  BY Zenon, <1>1, <1>2, <1>3
<1>5. CASE emit
  <2>1. died' = [died EXCEPT ![s] = Append(died[s], code)]
    BY Zenon, <1>5 DEF justWriteExecExitCode
  <2>2. died[s] \in Seq(Codes)
    BY Zenon, <1>1
  <2>3. /\ Append(died[s], code) \in Seq(Codes) /\ Append(died[s], code) # <<>>
        /\ \A i \in 1..Len(Append(died[s], code)) : Append(died[s], code)[i] = code \/
              (i \in 1..Len(died[s]) /\ Append(died[s], code)[i] = died[s][i])
    BY Zenon, <2>2, EventFacts
  <2>4. /\ died' \in [Sessions -> Seq(Codes)] /\ died'[s] = Append(died[s], code)
        /\ \A t \in Sessions \ {s} : died'[t] = died[t]
    BY Zenon, <1>1, <2>1, <2>3
  <2> QED
    BY Zenon, <1>3, <1>4, <1>5, <2>3, <2>4
<1>6. CASE ~emit
  <2>1. died' = died
    BY Zenon, <1>6 DEF justWriteExecExitCode
  <2> QED
    BY Zenon, <1>1, <1>3, <1>4, <1>6, <2>1
<1> QED
  BY Zenon, <1>5, <1>6

\* ExecRemove without force: a session that still runs stays, one that has ended
\* gets its code first.
LEMMA RemoveFacts ==
    ASSUME ExecConfigured, ExecTypeOK, NEW s \in Sessions, NEW err \in BOOLEAN, ExecRemove(s, err)
    PROVE  /\ ExecSessions' \in [Sessions -> Session \cup {Nil}]
           /\ died' \in [Sessions -> Seq(Codes)] /\ registry' \subseteq Sessions
           /\ \A t \in Sessions \ {s} : /\ ExecSessions'[t] = ExecSessions[t]
                                        /\ died'[t] = died[t]
                                        /\ t \in registry' <=> t \in registry
           /\ ExecSessions'[s] = ExecSessions[s] \/
              (ExecSessions'[s] = Nil /\ s \in registry /\ s \notin registry') \/
              (/\ ExecSessions'[s] # Nil /\ ExecSessions'[s].State = "stopped"
               /\ ExecSessions'[s].ExitCode = "real" /\ s \notin registry /\ IsRunning(s))
           /\ ExecSessions'[s] # ExecSessions[s] /\ IsRunning(s) =>
                 process[s] # "alive" /\ died'[s] # <<>>
           /\ ExecSessions'[s] = ExecSessions[s] => s \in registry' <=> s \in registry
           /\ \A i \in 1..Len(died'[s]) : died'[s][i] = "real" \/
                 (i \in 1..Len(died[s]) /\ died'[s][i] = died[s][i])
           /\ died[s] # <<>> => died'[s] # <<>>
           /\ ExecSessions'[s] # Nil => (s \in registry' <=> s \in registry)
           /\ err => ctrState = "gone" \/
                     (ExecSessions[s] # Nil /\ (IsRunning(s) \/ s \notin registry))
<1> DEFINE reap == IsRunning(s) /\ exitFile[s] /\ process[s] # "alive"
           may == ExecSessions[s] # Nil /\ (IsRunning(s) => reap)
           ok == may /\ s \in registry
<1>1. /\ ExecSessions \in [Sessions -> Session \cup {Nil}]
      /\ died \in [Sessions -> Seq(Codes)] /\ registry \subseteq Sessions
  BY Zenon DEF ExecTypeOK
<1>2. /\ ExecSessions' = [ExecSessions EXCEPT ![s] =
            IF ok THEN Nil ELSE IF reap THEN Stopped("real") ELSE ExecSessions[s]]
      /\ died' = IF reap THEN [died EXCEPT ![s] = Append(died[s], "real")] ELSE died
      /\ registry' = IF ok THEN registry \ {s} ELSE registry
      /\ err = (ctrState = "gone" \/ (ExecSessions[s] # Nil /\ ~ok))
  BY Zenon DEF ExecRemove
<1>3. /\ Stopped("real") \in Session /\ Stopped("real") # Nil /\ "real" \in Codes
      /\ Stopped("real").State = "stopped" /\ Stopped("real").ExitCode = "real"
  BY Zenon, SessionFacts DEF Codes
<1>4. /\ ExecSessions' \in [Sessions -> Session \cup {Nil}]
      /\ \A t \in Sessions \ {s} : ExecSessions'[t] = ExecSessions[t]
      /\ ExecSessions'[s] = IF ok THEN Nil ELSE IF reap THEN Stopped("real") ELSE ExecSessions[s]
  BY Zenon, <1>1, <1>2, <1>3
<1>5. /\ registry' \subseteq Sessions
      /\ \A t \in Sessions \ {s} : t \in registry' <=> t \in registry
      /\ s \in registry' <=> s \in registry /\ ~ok
  BY Zenon, <1>1, <1>2
<1>6. /\ died' \in [Sessions -> Seq(Codes)]
      /\ \A t \in Sessions \ {s} : died'[t] = died[t]
      /\ reap => died'[s] # <<>>
      /\ died[s] # <<>> => died'[s] # <<>>
      /\ \A i \in 1..Len(died'[s]) : died'[s][i] = "real" \/
            (i \in 1..Len(died[s]) /\ died'[s][i] = died[s][i])
  <2>1. CASE reap
    <3>1. died[s] \in Seq(Codes)
      BY Zenon, <1>1
    <3>2. /\ Append(died[s], "real") \in Seq(Codes) /\ Append(died[s], "real") # <<>>
          /\ \A i \in 1..Len(Append(died[s], "real")) : Append(died[s], "real")[i] = "real" \/
                (i \in 1..Len(died[s]) /\ Append(died[s], "real")[i] = died[s][i])
      BY Zenon, <1>3, <3>1, EventFacts
    <3>3. died' = [died EXCEPT ![s] = Append(died[s], "real")]
      BY Zenon, <1>2, <2>1
    <3>4. /\ died' \in [Sessions -> Seq(Codes)] /\ died'[s] = Append(died[s], "real")
          /\ \A t \in Sessions \ {s} : died'[t] = died[t]
      BY Zenon, <1>1, <3>2, <3>3
    <3> QED
      BY Zenon, <3>2, <3>4
  <2>2. CASE ~reap
    BY Zenon, <1>1, <1>2, <2>2
  <2> QED
    BY Zenon, <2>1, <2>2
<1>7. reap => IsRunning(s) /\ process[s] # "alive" /\ ExecSessions[s] # Nil
  BY Zenon DEF IsRunning
<1>8. ok => ExecSessions[s] # Nil /\ s \in registry /\ (IsRunning(s) => reap)
  BY Zenon
<1>9. ExecSessions[s] # Nil /\ ~ok => (IsRunning(s) /\ ~reap) \/ s \notin registry
  BY Zenon
<1> HIDE DEF reap, may, ok
<1>10. ExecSessions'[s] = ExecSessions[s] \/
       (ExecSessions'[s] = Nil /\ s \in registry /\ s \notin registry') \/
       (/\ ExecSessions'[s] # Nil /\ ExecSessions'[s].State = "stopped"
        /\ ExecSessions'[s].ExitCode = "real" /\ s \notin registry /\ IsRunning(s))
  <2>1. CASE ok
    BY Zenon, <1>4, <1>5, <1>8, <2>1
  <2>2. CASE ~ok /\ reap
    <3>1. s \notin registry
      BY Zenon, <1>7, <2>2 DEF ok, may
    <3> QED
      BY Zenon, <1>3, <1>4, <1>7, <2>2, <3>1
  <2>3. CASE ~ok /\ ~reap
    BY Zenon, <1>4, <2>3
  <2> QED
    BY Zenon, <2>1, <2>2, <2>3
<1>11. ExecSessions'[s] # ExecSessions[s] /\ IsRunning(s) => process[s] # "alive" /\ died'[s] # <<>>
  BY Zenon, <1>4, <1>6, <1>7, <1>8
<1>12. /\ ExecSessions'[s] = ExecSessions[s] => s \in registry' <=> s \in registry
       /\ ExecSessions'[s] # Nil => (s \in registry' <=> s \in registry)
  BY Zenon, <1>4, <1>5, <1>8
<1>13. err => ctrState = "gone" \/ (ExecSessions[s] # Nil /\ (IsRunning(s) \/ s \notin registry))
  BY Zenon, <1>2, <1>9
<1> QED
  BY Zenon, <1>4, <1>5, <1>6, <1>10, <1>11, <1>12, <1>13

---------------------------------------------------------------------------
\* Every step keeps the state in range.
LEMMA TypeStep ==
    ASSUME ExecConfigured, ExecTypeOK, Lives, Managed, [ExecNext]_execVars
    PROVE  ExecTypeOK'
<1>0. /\ ExecSessions \in [Sessions -> Session \cup {Nil}]
      /\ process \in [Sessions -> {"none", "alive", "dead"}]
      /\ bundle \in [Sessions -> BOOLEAN] /\ exitFile \in [Sessions -> BOOLEAN]
      /\ client \in [Sessions -> Steps]
      /\ exitCode \in [Sessions -> Codes \cup {Nil}]
      /\ result \in [Sessions -> Codes \cup {Nil, "error"}]
      /\ exitCmd \in [Sessions -> {"none", "wait", "bundle", "done"}]
      /\ mgr \in Commands
  BY Zenon DEF ExecTypeOK
<1> USE DEF db, files
<1>1. ASSUME NEW s \in Sessions, ExecCreate(s) PROVE ExecTypeOK'
  <2>1. ExecSessions' \in [Sessions -> Session \cup {Nil}]
    BY <1>0, <1>1, SessionFacts DEF ExecCreate
  <2>2. registry' \subseteq Sessions
    BY <1>1 DEF ExecCreate, ExecTypeOK
  <2>3. client' \in [Sessions -> Steps] /\ result' \in [Sessions -> Codes \cup {Nil, "error"}]
    BY Zenon, <1>0, <1>1 DEF ExecCreate, Steps
  <2> QED
    BY Zenon, <1>1, <2>1, <2>2, <2>3 DEF ExecCreate, ExecTypeOK
<1>2. ASSUME NEW s \in Sessions, StartSession(s) PROVE ExecTypeOK'
  <2>1. ExecSessions' \in [Sessions -> Session \cup {Nil}]
    <3>1. "generic" \in Codes
      BY Zenon DEF Codes
    <3>2. Stopped("generic") \in Session /\ Running \in Session
      BY Zenon, <3>1, SessionFacts
    <3> QED
      BY <1>0, <1>2, <3>2 DEF StartSession
  <2>2. client' \in [Sessions -> Steps]
    <3>1. AfterFailure(s) \in Steps
      BY Zenon DEF AfterFailure, Steps
    <3>2. "attached" \in Steps /\ "done" \in Steps
      BY Zenon DEF Steps
    <3> QED
      BY <1>0, <1>2, <3>1, <3>2 DEF StartSession
  <2>3. process' \in [Sessions -> {"none", "alive", "dead"}] /\ bundle' \in [Sessions -> BOOLEAN]
    BY Zenon, <1>0, <1>2 DEF StartSession
  <2>4. result' \in [Sessions -> Codes \cup {Nil, "error"}]
    BY Zenon, <1>0, <1>2 DEF StartSession
  <2>5. exitCmd' \in [Sessions -> {"none", "wait", "bundle", "done"}]
    BY Zenon, <1>0, <1>2 DEF StartSession
  <2> QED
    BY Zenon, <1>2, <2>1, <2>2, <2>3, <2>4, <2>5 DEF StartSession, ExecTypeOK
<1>3. ASSUME NEW s \in Sessions, AttachEnds(s) PROVE ExecTypeOK'
  <2>1. client' \in [Sessions -> Steps] /\ result' \in [Sessions -> Codes \cup {Nil, "error"}]
    BY Zenon, <1>0, <1>3 DEF AttachEnds, Steps
  <2> QED
    BY Zenon, <1>3, <2>1 DEF AttachEnds, ExecTypeOK
<1>4. ASSUME NEW s \in Sessions, readExecExitCode(s) PROVE ExecTypeOK'
  <2>1. client' \in [Sessions -> Steps] /\ exitCode' \in [Sessions -> Codes \cup {Nil}]
    BY Zenon, <1>0, <1>4 DEF readExecExitCode, Steps, Codes
  <2> QED
    BY Zenon, <1>4, <2>1 DEF readExecExitCode, ExecTypeOK
<1>5. ASSUME NEW s \in Sessions, WriteExitCode(s) PROVE ExecTypeOK'
  <2>1. client' \in [Sessions -> Steps] /\ result' \in [Sessions -> Codes \cup {Nil, "error"}]
    BY Zenon, <1>0, <1>5 DEF WriteExitCode, Steps
  <2>2. ExecSessions' \in [Sessions -> Session \cup {Nil}] /\ died' \in [Sessions -> Seq(Codes)]
    <3>1. exitCode[s] \in Codes /\ (Kind(s) # "health") \in BOOLEAN
      BY Zenon, <1>5 DEF WriteExitCode, Lives, Life, Codes
    <3>2. CASE UNCHANGED <<ExecSessions, died>>
      BY Zenon, <3>2 DEF ExecTypeOK
    <3>3. CASE justWriteExecExitCode(s, exitCode[s], Kind(s) # "health")
      BY Zenon, <3>1, <3>3, WriteFacts
    <3> QED
      BY Zenon, <1>5, <3>2, <3>3 DEF WriteExitCode
  <2> QED
    BY Zenon, <1>5, <2>1, <2>2 DEF WriteExitCode, ExecTypeOK
<1>6. ASSUME NEW s, cleanupExecBundle(s)
      PROVE  bundle' \in [Sessions -> BOOLEAN] /\ exitFile' \in [Sessions -> BOOLEAN]
  BY Zenon, <1>0, <1>6 DEF cleanupExecBundle
<1>7. ASSUME NEW s \in Sessions, ClientCleansBundle(s) PROVE ExecTypeOK'
  <2>1. client' \in [Sessions -> Steps]
    BY Zenon, <1>0, <1>7 DEF ClientCleansBundle, Steps
  <2>2. bundle' \in [Sessions -> BOOLEAN] /\ exitFile' \in [Sessions -> BOOLEAN]
    BY Zenon, <1>6, <1>7 DEF ClientCleansBundle
  <2> QED
    BY Zenon, <1>7, <2>1, <2>2 DEF ClientCleansBundle, ExecTypeOK
<1>8. ASSUME NEW s \in Sessions, ReportExitCode(s) PROVE ExecTypeOK'
  <2>1. client' \in [Sessions -> Steps]
    BY Zenon, <1>0, <1>8 DEF ReportExitCode, Steps
  <2>2. result' \in [Sessions -> Codes \cup {Nil, "error"}]
    <3> DEFINE r == IF result[s] = "error" \/ ctrState = "gone" THEN "error"
                    ELSE IF ExecSessions[s] # Nil THEN ExecSessions[s].ExitCode
                    ELSE IF died[s] # <<>> THEN died[s][Len(died[s])] ELSE "error"
    <3>1. ExecSessions[s] # Nil => ExecSessions[s].ExitCode \in Codes
      BY Zenon, <1>0 DEF Session
    <3>2. died[s] # <<>> => died[s][Len(died[s])] \in Codes
      <4>1. died[s] \in Seq(Codes)
        BY Zenon DEF ExecTypeOK
      <4> QED
        BY <4>1
    <3>3. r \in Codes \cup {Nil, "error"}
      BY Zenon, <3>1, <3>2
    <3>4. result' = [result EXCEPT ![s] = r]
      BY Zenon, <1>8 DEF ReportExitCode
    <3> HIDE DEF r
    <3> QED
      BY Zenon, <1>0, <3>3, <3>4
  <2> QED
    BY Zenon, <1>8, <2>1, <2>2 DEF ReportExitCode, ExecTypeOK
<1>9. ASSUME NEW s \in Sessions, NEW err \in BOOLEAN, ExecRemove(s, err)
      PROVE  /\ ExecSessions' \in [Sessions -> Session \cup {Nil}]
             /\ died' \in [Sessions -> Seq(Codes)] /\ registry' \subseteq Sessions
  BY Zenon, <1>9, RemoveFacts
<1>10. ASSUME NEW s \in Sessions, ClientRemoves(s) PROVE ExecTypeOK'
  <2>1. client' \in [Sessions -> Steps] /\ result' \in [Sessions -> Codes \cup {Nil, "error"}]
    BY Zenon, <1>0, <1>10 DEF ClientRemoves, Steps
  <2>2. /\ ExecSessions' \in [Sessions -> Session \cup {Nil}]
        /\ died' \in [Sessions -> Seq(Codes)] /\ registry' \subseteq Sessions
    BY Zenon, <1>9, <1>10 DEF ClientRemoves
  <2> QED
    BY Zenon, <1>10, <2>1, <2>2 DEF ClientRemoves, ExecTypeOK
<1>11. ASSUME NEW s \in Sessions, ClientDies(s) PROVE ExecTypeOK'
  <2>1. client' \in [Sessions -> Steps] /\ result' \in [Sessions -> Codes \cup {Nil, "error"}]
    BY Zenon, <1>0, <1>11 DEF ClientDies, Steps
  <2> QED
    BY Zenon, <1>11, <2>1 DEF ClientDies, ExecTypeOK
<1>12. ASSUME NEW s \in Sessions, ProcessExits(s) \/ ConmonWrites(s) PROVE ExecTypeOK'
  <2>1. process' \in [Sessions -> {"none", "alive", "dead"}] /\ exitFile' \in [Sessions -> BOOLEAN]
    BY Zenon, <1>0, <1>12 DEF ProcessExits, ConmonWrites
  <2> QED
    BY Zenon, <1>12, <2>1 DEF ProcessExits, ConmonWrites, ExecTypeOK
<1>13. ASSUME NEW s \in Sessions, NEW code \in Codes, justWriteExecExitCode(s, code, TRUE)
       PROVE  /\ ExecSessions' \in [Sessions -> Session \cup {Nil}]
              /\ died' \in [Sessions -> Seq(Codes)]
  BY Zenon, <1>13, WriteFacts
<1>14. "real" \in Codes /\ "minus one" \in Codes
  BY Zenon DEF Codes
<1>15. ASSUME NEW s \in Sessions, ExecCleanup(s) PROVE ExecTypeOK'
  <2>1. exitCmd' \in [Sessions -> {"none", "wait", "bundle", "done"}]
    BY Zenon, <1>0, <1>15 DEF ExecCleanup
  <2>2. ExecSessions' \in [Sessions -> Session \cup {Nil}] /\ died' \in [Sessions -> Seq(Codes)]
    BY Zenon, <1>13, <1>14, <1>15 DEF ExecCleanup, ExecTypeOK
  <2> QED
    BY Zenon, <1>15, <2>1, <2>2 DEF ExecCleanup, ExecTypeOK
<1>16. ASSUME NEW s \in Sessions, ExitCommandCleansBundle(s) PROVE ExecTypeOK'
  <2>1. exitCmd' \in [Sessions -> {"none", "wait", "bundle", "done"}]
    BY Zenon, <1>0, <1>16 DEF ExitCommandCleansBundle
  <2>2. bundle' \in [Sessions -> BOOLEAN] /\ exitFile' \in [Sessions -> BOOLEAN]
    BY Zenon, <1>6, <1>16 DEF ExitCommandCleansBundle
  <2> QED
    BY Zenon, <1>16, <2>1, <2>2 DEF ExitCommandCleansBundle, ExecTypeOK
<1>17. ASSUME NEW s \in Sessions, ExitCommandRemoves(s) PROVE ExecTypeOK'
  <2>1. exitCmd' \in [Sessions -> {"none", "wait", "bundle", "done"}]
    BY Zenon, <1>0, <1>17 DEF ExitCommandRemoves
  <2>2. /\ ExecSessions' \in [Sessions -> Session \cup {Nil}]
        /\ died' \in [Sessions -> Seq(Codes)] /\ registry' \subseteq Sessions
    BY Zenon, <1>9, <1>17 DEF ExitCommandRemoves
  <2> QED
    BY Zenon, <1>17, <2>1, <2>2 DEF ExitCommandRemoves, ExecTypeOK
<1>18. ASSUME NEW s \in Sessions, ExecResize(s) PROVE ExecTypeOK'
  <2>1. ExecSessions[s] \in Session
    BY Zenon, <1>0, <1>18 DEF ExecResize, IsRunning
  <2>2. [ExecSessions[s] EXCEPT !.State = "stopped"] \in Session
    BY Zenon, <2>1, SessionFacts
  <2>3. ExecSessions' = [ExecSessions EXCEPT ![s] = [ExecSessions[s] EXCEPT !.State = "stopped"]]
    BY Zenon, <1>18 DEF ExecResize
  <2>4. ExecSessions' \in [Sessions -> Session \cup {Nil}]
    BY Zenon, <1>0, <2>2, <2>3
  <2> QED
    BY Zenon, <1>18, <2>4 DEF ExecResize, ExecTypeOK
<1>19. ASSUME NEW s \in Sessions, NEW pc \in {"stop bundle", "remove bundle"}, StopSession(s, pc)
       PROVE  ExecTypeOK'
  <2>1. process' \in [Sessions -> {"none", "alive", "dead"}] /\ exitFile' \in [Sessions -> BOOLEAN]
    BY Zenon, <1>0, <1>19 DEF StopSession
  <2>2. ExecSessions' \in [Sessions -> Session \cup {Nil}] /\ died' \in [Sessions -> Seq(Codes)]
    BY Zenon, <1>13, <1>14, <1>19 DEF StopSession, ExecTypeOK
  <2>3. mgr' \in Commands
    <3>1. mgr' = mgr \/ mgr' = [pc |-> pc, todo |-> {}, cur |-> s]
      BY Zenon, <1>19 DEF StopSession
    <3>2. [pc |-> pc, todo |-> {}, cur |-> s] \in Commands
      BY Zenon, CommandFacts
    <3> QED
      BY Zenon, <1>0, <3>1, <3>2
  <2> QED
    BY Zenon, <1>19, <2>1, <2>2, <2>3 DEF StopSession, ExecTypeOK
<1>20. ASSUME NEW s \in Sessions, ExecStop(s) PROVE ExecTypeOK'
  BY Zenon, <1>19, <1>20 DEF ExecStop
<1>21. ASSUME NEW s \in Sessions, ExecRemoveHandler(s) PROVE ExecTypeOK'
  <2>1. CASE StopSession(s, "remove bundle")
    BY Zenon, <1>19, <2>1
  <2>2. CASE /\ \E err \in BOOLEAN : ExecRemove(s, err)
             /\ UNCHANGED <<sys, ctrState, files, client, exitCode, result, exitCmd, mgr>>
    <3>1. /\ ExecSessions' \in [Sessions -> Session \cup {Nil}]
          /\ died' \in [Sessions -> Seq(Codes)] /\ registry' \subseteq Sessions
      BY Zenon, <1>9, <2>2
    <3> QED
      BY Zenon, <2>2, <3>1 DEF ExecTypeOK
  <2> QED
    BY Zenon, <1>21, <2>1, <2>2 DEF ExecRemoveHandler
<1>22. CASE SessionStopped
  <2>1. bundle' \in [Sessions -> BOOLEAN] /\ exitFile' \in [Sessions -> BOOLEAN]
    BY Zenon, <1>6, <1>22 DEF SessionStopped
  <2>2. ExecSessions' \in [Sessions -> Session \cup {Nil}] /\ registry' \subseteq Sessions
    BY Zenon, <1>0, <1>22 DEF SessionStopped, ExecTypeOK
  <2>3. mgr' \in Commands
    BY Zenon, <1>22, CommandFacts DEF SessionStopped
  <2> QED
    BY Zenon, <1>22, <2>1, <2>2, <2>3 DEF SessionStopped, ExecTypeOK
<1>23. CASE getActiveExecSessions
  <2>1. mgr' \in Commands
    <3>1. PICK todo \in SUBSET Sessions : mgr' = [NoCmd EXCEPT !.pc = "reap", !.todo = todo]
      BY Zenon, <1>23 DEF getActiveExecSessions
    <3>2. [NoCmd EXCEPT !.pc = "reap", !.todo = todo] \in Commands
      BY Zenon, CommandFacts
    <3> QED
      BY Zenon, <3>1, <3>2
  <2> QED
    BY Zenon, <1>23, <2>1 DEF getActiveExecSessions, ExecTypeOK
<1>24. CASE ReapNext
  <2>1. bundle' \in [Sessions -> BOOLEAN] /\ exitFile' \in [Sessions -> BOOLEAN]
    <3>1. mgr.cur # Nil => cleanupExecBundle(mgr.cur)
      BY Zenon, <1>24 DEF ReapNext
    <3>2. mgr.cur = Nil => UNCHANGED <<bundle, exitFile>>
      BY Zenon, <1>24 DEF ReapNext
    <3> QED
      BY Zenon, <1>0, <1>6, <3>1, <3>2
  <2>2. /\ ExecSessions' \in [Sessions -> Session \cup {Nil}]
        /\ died' \in [Sessions -> Seq(Codes)] /\ mgr' \in Commands
    <3>1. CASE mgr' = NoCmd /\ UNCHANGED <<ExecSessions, died>>
      BY Zenon, <3>1, CommandFacts DEF ExecTypeOK
    <3>2. ASSUME NEW s \in mgr.todo,
                 justWriteExecExitCode(s, IF exitFile[s] THEN "real" ELSE "minus one", TRUE),
                 mgr' = [mgr EXCEPT !.todo = @ \ {s}, !.cur = s]
          PROVE  /\ ExecSessions' \in [Sessions -> Session \cup {Nil}]
                 /\ died' \in [Sessions -> Seq(Codes)] /\ mgr' \in Commands
      <4>1. s \in Sessions
        BY Zenon, <1>0, <3>2, CommandFacts
      <4>2. (IF exitFile[s] THEN "real" ELSE "minus one") \in Codes
        BY Zenon, <1>14
      <4> QED
        BY Zenon, <1>0, <1>13, <3>2, <4>1, <4>2, CommandFacts
    <3> QED
      BY Zenon, <1>24, <3>1, <3>2 DEF ReapNext
  <2> QED
    BY Zenon, <1>24, <2>1, <2>2 DEF ReapNext, ExecTypeOK
<1>25. CASE ContainerStops
  <2>1. process' \in [Sessions -> {"none", "alive", "dead"}]
    BY Zenon, <1>0, <1>25 DEF ContainerStops
  <2> QED
    BY Zenon, <1>25, <2>1 DEF ContainerStops, ExecTypeOK
<1>26. CASE ContainerInit
  BY Zenon, <1>26 DEF ContainerInit, ExecTypeOK
<1>27. CASE removeAllExecSessions
  <2>1. mgr' \in Commands
    <3>1. {s \in Sessions : IsRunning(s)} \in SUBSET Sessions
      BY Zenon
    <3> QED
      BY Zenon, <1>27, <3>1, CommandFacts DEF removeAllExecSessions
  <2> QED
    BY Zenon, <1>27, <2>1 DEF removeAllExecSessions, ExecTypeOK
<1>28. CASE RemoveNext
  <2>1. CASE /\ ctrState' = "gone" /\ mgr' = NoCmd /\ registry' = {}
             /\ ExecSessions' = [s \in Sessions |-> Nil]
             /\ bundle' = [s \in Sessions |-> FALSE] /\ exitFile' = [s \in Sessions |-> FALSE]
    BY Zenon, <1>28, <2>1, CommandFacts DEF RemoveNext, ExecTypeOK
  <2>2. ASSUME NEW s \in mgr.todo, cleanupExecBundle(s), mgr' = [mgr EXCEPT !.todo = @ \ {s}],
               UNCHANGED <<ctrState, ExecSessions, registry>>
        PROVE  ExecTypeOK'
    <3>1. bundle' \in [Sessions -> BOOLEAN] /\ exitFile' \in [Sessions -> BOOLEAN]
      BY Zenon, <1>6, <2>2
    <3>2. mgr' \in Commands
      <4>1. s \in Sessions
        BY Zenon, <1>0, <2>2, CommandFacts
      <4> QED
        BY Zenon, <1>0, <2>2, <4>1, CommandFacts
    <3> QED
      BY Zenon, <1>28, <2>2, <3>1, <3>2 DEF RemoveNext, ExecTypeOK
  <2> QED
    BY Zenon, <1>28, <2>1, <2>2 DEF RemoveNext
<1>29. CASE UNCHANGED execVars
  BY Zenon, <1>29 DEF execVars, ExecTypeOK
<1> QED
  BY Zenon, <1>1, <1>2, <1>3, <1>4, <1>5, <1>7, <1>8, <1>10, <1>11, <1>12, <1>15, <1>16, <1>17, <1>18,
     <1>20, <1>21, <1>22, <1>23, <1>24, <1>25, <1>26, <1>27, <1>28, <1>29
  DEF ExecNext, Client, Command, ExitCommand

---------------------------------------------------------------------------
\* The invariant apart from the types.
Rest == Lives /\ Managed /\ RegistryAgrees /\ Recorded /\ CodesReal

\* What holds of a session the step leaves alone holds after it.
LEMMA Unaffected ==
    ASSUME NEW t \in Sessions, Same(t), sys' = sys, ctrState' = ctrState,
           mgr'.pc = "rm" <=> mgr.pc = "rm"
    PROVE  /\ Life(t) => Life(t)'
           /\ RecordedOf(t) => RecordedOf(t)'
           /\ CodeOf(t) => CodeOf(t)'
           /\ IsRunning(t)' = IsRunning(t)
<1>1. IsRunning(t)' = IsRunning(t)
  BY Zenon DEF Same, IsRunning
<1>2. Life(t) => Life(t)'
  BY Zenon, <1>1 DEF Same, Life, Kind
<1>3. RecordedOf(t) => RecordedOf(t)'
  BY Zenon, <1>1 DEF Same, RecordedOf
<1>4. CodeOf(t) => CodeOf(t)'
  <2>1. Kind(t)' = Kind(t) /\ MayError(t)' = MayError(t) /\ Removal' = Removal
        /\ \A f : Has(f)' = Has(f)
    BY Zenon DEF Kind, MayError, Has, Removal
  <2> QED
    BY Zenon, <1>1, <2>1 DEF Same, CodeOf
<1> QED
  BY Zenon, <1>1, <1>2, <1>3, <1>4

\* What mgr is doing is not disturbed by what the others do to their sessions.
LEMMA ManagedKept ==
    ASSUME ExecTypeOK, Managed, sys' = sys, ctrState' = ctrState, mgr' = mgr, NEW s \in Sessions,
           \A t \in Sessions \ {s} : Same(t),
           process[s] = "dead" /\ ~IsRunning(s) => process'[s] = "dead" /\ ~IsRunning(s)'
    PROVE  Managed'
<1>1. mgr.cur \in Sessions \cup {Nil}
  BY Zenon, CommandFacts DEF ExecTypeOK
<1>2. mgr.cur # Nil => process'[mgr.cur] = "dead" /\ ~IsRunning(mgr.cur)'
  BY Zenon, <1>1 DEF Managed, Same, IsRunning
<1>3. \A f : Has(f)' = Has(f)
  BY Zenon DEF Has
<1> QED
  BY Zenon, <1>2, <1>3 DEF Managed, IsRunning

\* A step that concerns one session.
LEMMA OneSession ==
    ASSUME ExecConfigured, IInv, ExecTypeOK', sys' = sys, ctrState' = ctrState,
           mgr'.pc = "rm" <=> mgr.pc = "rm", Managed', NEW s \in Sessions,
           \A t \in Sessions \ {s} : Same(t),
           Life(s)',
           ~Has("die") /\ (s \in registry <=> ExecSessions[s] # Nil) =>
               (s \in registry' <=> ExecSessions'[s] # Nil),
           Calm => RecordedOf(s)',
           Quiet /\ Undisturbed(s) /\ CodeOf(s) => CodeOf(s)'
    PROVE  Rest'
<1>1. Lives'
  BY Zenon, Unaffected DEF IInv, Lives
<1>2. RegistryAgrees'
  <2> SUFFICES ASSUME ~Has("die") PROVE registry' = {t \in Sessions : ExecSessions'[t] # Nil}
    BY Zenon DEF RegistryAgrees, Has
  <2>1. registry = {t \in Sessions : ExecSessions[t] # Nil}
    BY Zenon DEF IInv, RegistryAgrees
  <2>2. \A t \in Sessions : t \in registry' <=> ExecSessions'[t] # Nil
    BY Zenon, <2>1 DEF Same
  <2>3. registry' \subseteq Sessions
    BY Zenon DEF ExecTypeOK
  <2> QED
    BY Zenon, <2>2, <2>3
<1>3. Recorded'
  <2>1. Calm' = Calm
    BY Zenon DEF Calm, Has
  <2> QED
    BY Zenon, <2>1, Unaffected DEF IInv, Recorded
<1>4. CodesReal'
  <2>1. Quiet' = Quiet /\ \A t : Undisturbed(t)' = Undisturbed(t)
    BY Zenon DEF Quiet, Undisturbed, Kind
  <2> QED
    BY Zenon, <2>1, Unaffected DEF IInv, CodesReal
<1> QED
  BY Zenon, <1>1, <1>2, <1>3, <1>4 DEF Rest

---------------------------------------------------------------------------
\* What the faults of a system exclude.
LEMMA FaultFacts ==
    /\ \A f : sys' = sys => Has(f)' = Has(f)
    /\ \A s : sys' = sys => Kind(s)' = Kind(s) /\ MayError(s)' = MayError(s) /\ Removal' = Removal
    /\ Calm => ~Has("die") /\ ~Has("detach") /\ ~(Has("rm") /\ Has("restart"))
    /\ Quiet => ~Has("slow") /\ ~Has("detach") /\ ~Has("startfail") /\ ~Has("resize")
    /\ \A s : Undisturbed(s) /\ Kind(s) = "http" =>
                  ~Has("reap") /\ ~Has("rmexec") /\ ~Has("stopexec")
    /\ Removal <=> Has("rm") /\ Has("stop")
    /\ \A s : MayError(s) <=> Has("stop") \/ (Kind(s) = "health" /\ Has("rmexec"))
  BY Zenon DEF Has, Kind, MayError, Removal, Calm, Quiet, Undisturbed

\* The attach ends: with the process, unless somebody may detach.
LEMMA AttachEndsKeeps ==
    ASSUME ExecConfigured, IInv, ExecTypeOK', NEW s \in Sessions, AttachEnds(s)
    PROVE  Rest'
<1>0. Life(s) /\ (Calm => RecordedOf(s)) /\ ExecTypeOK /\ Managed
  BY Zenon DEF IInv, Lives, Recorded
<1>1. /\ sys' = sys /\ ctrState' = ctrState /\ mgr' = mgr
      /\ \A t \in Sessions \ {s} : Same(t)
  BY Zenon, <1>0 DEF AttachEnds, Same, ExecTypeOK, db, files
<1>2. /\ client[s] = "attached" /\ client'[s] = "read"
      /\ ExecSessions'[s] = ExecSessions[s] /\ process'[s] = process[s] /\ bundle'[s] = bundle[s]
      /\ died'[s] = died[s] /\ exitCode'[s] = exitCode[s] /\ exitCmd'[s] = exitCmd[s]
      /\ s \in registry' <=> s \in registry
      /\ \/ process[s] = "dead" /\ result'[s] = result[s]
         \/ Has("detach")
  BY Zenon, <1>0 DEF AttachEnds, ExecTypeOK, db, files
<1>3. Life(s)'
  BY Zenon, <1>0, <1>1, <1>2, FaultFacts DEF Life, IsRunning
<1>4. Calm => RecordedOf(s)'
  BY Zenon, <1>0, <1>1, <1>2, FaultFacts DEF RecordedOf, IsRunning
<1>5. Quiet /\ Undisturbed(s) /\ CodeOf(s) => CodeOf(s)'
  BY Zenon, <1>0, <1>1, <1>2, FaultFacts DEF CodeOf, Life, IsRunning
<1>6. Managed'
  BY Zenon, <1>0, <1>1, <1>2, <1>3, ManagedKept DEF IsRunning, Life
<1> QED
  BY Zenon, <1>1, <1>2, <1>3, <1>4, <1>5, <1>6, OneSession DEF Life, IsRunning

\* The client reads the exit code: of a process that has ended it is missing only if the
\* bundle is gone.
LEMMA readExecExitCodeKeeps ==
    ASSUME ExecConfigured, IInv, ExecTypeOK', NEW s \in Sessions, readExecExitCode(s)
    PROVE  Rest'
<1>0. Life(s) /\ (Calm => RecordedOf(s)) /\ ExecTypeOK /\ Managed
  BY Zenon DEF IInv, Lives, Recorded
<1>1. /\ sys' = sys /\ ctrState' = ctrState /\ mgr' = mgr
      /\ \A t \in Sessions \ {s} : Same(t)
  BY Zenon, <1>0 DEF readExecExitCode, Same, ExecTypeOK, db, files
<1>2. /\ client[s] = "read" /\ client'[s] = "write"
      /\ ExecSessions'[s] = ExecSessions[s] /\ process'[s] = process[s] /\ bundle'[s] = bundle[s]
      /\ died'[s] = died[s] /\ result'[s] = result[s] /\ exitCmd'[s] = exitCmd[s]
      /\ s \in registry' <=> s \in registry
      /\ exitCode'[s] \in {"real", "minus one"}
      /\ exitCode'[s] = "minus one" => ~bundle[s] \/ process[s] = "alive" \/ Has("slow")
  BY Zenon, <1>0 DEF readExecExitCode, ReadReturns, ReadFails, ExecTypeOK, db, files
<1>3. Life(s)'
  BY Zenon, <1>0, <1>1, <1>2, FaultFacts DEF Life, IsRunning
<1>4. Calm => RecordedOf(s)'
  BY Zenon, <1>0, <1>1, <1>2, FaultFacts DEF RecordedOf, IsRunning
<1>5. Quiet /\ Undisturbed(s) /\ CodeOf(s) => CodeOf(s)'
  <2>1. ~bundle[s] /\ IsRunning(s) /\ process[s] # "none" => Removal
    BY Zenon, <1>0, FaultFacts DEF Life, Managed
  <2> QED
    BY Zenon, <1>0, <1>1, <1>2, <2>1, FaultFacts DEF CodeOf, Life, IsRunning
<1>6. Managed'
  BY Zenon, <1>0, <1>1, <1>2, <1>3, ManagedKept DEF IsRunning, Life
<1> QED
  BY Zenon, <1>1, <1>2, <1>3, <1>4, <1>5, <1>6, OneSession DEF Life, IsRunning

\* The client takes the bundle away when the code is recorded.
LEMMA ClientCleansBundleKeeps ==
    ASSUME ExecConfigured, IInv, ExecTypeOK', NEW s \in Sessions, ClientCleansBundle(s)
    PROVE  Rest'
<1>0. Life(s) /\ (Calm => RecordedOf(s)) /\ ExecTypeOK /\ Managed
  BY Zenon DEF IInv, Lives, Recorded
<1>1. /\ sys' = sys /\ ctrState' = ctrState /\ mgr' = mgr
      /\ \A t \in Sessions \ {s} : Same(t)
  BY Zenon, <1>0 DEF ClientCleansBundle, cleanupExecBundle, Same, ExecTypeOK, db, files
<1>2. /\ client[s] = "bundle" /\ client'[s] \in {"done", "report"}
      /\ ExecSessions'[s] = ExecSessions[s] /\ process'[s] = process[s] /\ result'[s] = result[s]
      /\ died'[s] = died[s] /\ exitCode'[s] = exitCode[s] /\ exitCmd'[s] = exitCmd[s]
      /\ s \in registry' <=> s \in registry
  BY Zenon, <1>0 DEF ClientCleansBundle, ExecTypeOK, db, files
<1>3. Life(s)'
  BY Zenon, <1>0, <1>1, <1>2, FaultFacts DEF Life, IsRunning
<1>4. Calm => RecordedOf(s)'
  BY Zenon, <1>0, <1>1, <1>2, FaultFacts DEF RecordedOf, IsRunning
<1>5. Quiet /\ Undisturbed(s) /\ CodeOf(s) => CodeOf(s)'
  BY Zenon, <1>0, <1>1, <1>2, FaultFacts DEF CodeOf, Life, IsRunning
<1>6. Managed'
  BY Zenon, <1>0, <1>1, <1>2, <1>3, ManagedKept DEF IsRunning, Life
<1> QED
  BY Zenon, <1>1, <1>2, <1>3, <1>4, <1>5, <1>6, OneSession DEF Life, IsRunning

\* A client is killed.
LEMMA ClientDiesKeeps ==
    ASSUME ExecConfigured, IInv, ExecTypeOK', NEW s \in Sessions, ClientDies(s)
    PROVE  Rest'
<1>0. Life(s) /\ (Calm => RecordedOf(s)) /\ ExecTypeOK /\ Managed
  BY Zenon DEF IInv, Lives, Recorded
<1>1. /\ sys' = sys /\ ctrState' = ctrState /\ mgr' = mgr
      /\ \A t \in Sessions \ {s} : Same(t)
  BY Zenon, <1>0 DEF ClientDies, Same, ExecTypeOK, db, files
<1>2. /\ Has("die") /\ client'[s] = "done" /\ result'[s] = Nil
      /\ ExecSessions'[s] = ExecSessions[s] /\ process'[s] = process[s] /\ bundle'[s] = bundle[s]
      /\ died'[s] = died[s] /\ exitCode'[s] = exitCode[s] /\ exitCmd'[s] = exitCmd[s]
      /\ s \in registry' <=> s \in registry
  BY Zenon, <1>0 DEF ClientDies, ExecTypeOK, db, files
<1>3. Life(s)'
  BY Zenon, <1>0, <1>1, <1>2, FaultFacts DEF Life, IsRunning
<1>4. Calm => RecordedOf(s)'
  BY Zenon, <1>0, <1>1, <1>2, FaultFacts DEF RecordedOf, IsRunning
<1>5. Quiet /\ Undisturbed(s) /\ CodeOf(s) => CodeOf(s)'
  BY Zenon, <1>0, <1>1, <1>2, FaultFacts DEF CodeOf, Life, IsRunning
<1>6. Managed'
  BY Zenon, <1>0, <1>1, <1>2, <1>3, ManagedKept DEF IsRunning, Life
<1> QED
  BY Zenon, <1>1, <1>2, <1>3, <1>4, <1>5, <1>6, OneSession DEF Life, IsRunning

\* The process ends.
LEMMA ProcessExitsKeeps ==
    ASSUME ExecConfigured, IInv, ExecTypeOK', NEW s \in Sessions, ProcessExits(s)
    PROVE  Rest'
<1>0. Life(s) /\ (Calm => RecordedOf(s)) /\ ExecTypeOK /\ Managed
  BY Zenon DEF IInv, Lives, Recorded
<1>1. /\ sys' = sys /\ ctrState' = ctrState /\ mgr' = mgr
      /\ \A t \in Sessions \ {s} : Same(t)
  BY Zenon, <1>0 DEF ProcessExits, Same, ExecTypeOK, db, files
<1>2. /\ process[s] = "alive" /\ process'[s] = "dead"
      /\ ExecSessions'[s] = ExecSessions[s] /\ bundle'[s] = bundle[s] /\ died'[s] = died[s]
      /\ client'[s] = client[s] /\ exitCode'[s] = exitCode[s]
      /\ result'[s] = result[s] /\ exitCmd'[s] = exitCmd[s]
      /\ s \in registry' <=> s \in registry
  BY Zenon, <1>0 DEF ProcessExits, ExecTypeOK, db, files
<1>3. Life(s)'
  BY Zenon, <1>0, <1>1, <1>2, FaultFacts DEF Life, IsRunning
<1>4. Calm => RecordedOf(s)'
  BY Zenon, <1>0, <1>1, <1>2, FaultFacts DEF RecordedOf, IsRunning
<1>5. Quiet /\ Undisturbed(s) /\ CodeOf(s) => CodeOf(s)'
  BY Zenon, <1>0, <1>1, <1>2, FaultFacts DEF CodeOf, Life, IsRunning
<1>6. Managed'
  BY Zenon, <1>0, <1>1, <1>2, <1>3, ManagedKept DEF IsRunning, Life
<1> QED
  BY Zenon, <1>1, <1>2, <1>3, <1>4, <1>5, <1>6, OneSession DEF Life, IsRunning

\* conmon writes the exit file.
LEMMA ConmonWritesKeeps ==
    ASSUME ExecConfigured, IInv, ExecTypeOK', NEW s \in Sessions, ConmonWrites(s)
    PROVE  Rest'
<1>0. Life(s) /\ (Calm => RecordedOf(s)) /\ ExecTypeOK /\ Managed
  BY Zenon DEF IInv, Lives, Recorded
<1>1. /\ sys' = sys /\ ctrState' = ctrState /\ mgr' = mgr
      /\ \A t \in Sessions \ {s} : Same(t)
  BY Zenon, <1>0 DEF ConmonWrites, Same, ExecTypeOK, db, files
<1>2. /\ ExecSessions'[s] = ExecSessions[s] /\ process'[s] = process[s] /\ bundle'[s] = bundle[s] /\ died'[s] = died[s]
      /\ client'[s] = client[s] /\ exitCode'[s] = exitCode[s]
      /\ result'[s] = result[s] /\ exitCmd'[s] = exitCmd[s]
      /\ s \in registry' <=> s \in registry
  BY Zenon, <1>0 DEF ConmonWrites, ExecTypeOK, db, files
<1>3. Life(s)'
  BY Zenon, <1>0, <1>1, <1>2, FaultFacts DEF Life, IsRunning
<1>4. Calm => RecordedOf(s)'
  BY Zenon, <1>0, <1>1, <1>2, FaultFacts DEF RecordedOf, IsRunning
<1>5. Quiet /\ Undisturbed(s) /\ CodeOf(s) => CodeOf(s)'
  BY ZenonT(30), <1>0, <1>1, <1>2, FaultFacts DEF CodeOf, Life, IsRunning
<1>6. Managed'
  BY Zenon, <1>0, <1>1, <1>2, <1>3, ManagedKept DEF IsRunning, Life
<1> QED
  BY Zenon, <1>1, <1>2, <1>3, <1>4, <1>5, <1>6, OneSession DEF Life, IsRunning

\* The exit command takes the bundle away when the code is recorded.
LEMMA ExitCommandCleansBundleKeeps ==
    ASSUME ExecConfigured, IInv, ExecTypeOK', NEW s \in Sessions, ExitCommandCleansBundle(s)
    PROVE  Rest'
<1>0. Life(s) /\ (Calm => RecordedOf(s)) /\ ExecTypeOK /\ Managed
  BY Zenon DEF IInv, Lives, Recorded
<1>1. /\ sys' = sys /\ ctrState' = ctrState /\ mgr' = mgr
      /\ \A t \in Sessions \ {s} : Same(t)
  BY Zenon, <1>0 DEF ExitCommandCleansBundle, cleanupExecBundle, Same, ExecTypeOK, db, files
<1>2. /\ exitCmd[s] = "bundle" /\ exitCmd'[s] = "done"
      /\ ExecSessions'[s] = ExecSessions[s] /\ process'[s] = process[s] /\ died'[s] = died[s]
      /\ client'[s] = client[s] /\ exitCode'[s] = exitCode[s] /\ result'[s] = result[s]
      /\ s \in registry' <=> s \in registry
  BY Zenon, <1>0 DEF ExitCommandCleansBundle, ExecTypeOK, db, files
<1>3. Life(s)'
  BY Zenon, <1>0, <1>1, <1>2, FaultFacts DEF Life, IsRunning
<1>4. Calm => RecordedOf(s)'
  BY Zenon, <1>0, <1>1, <1>2, FaultFacts DEF RecordedOf, IsRunning
<1>5. Quiet /\ Undisturbed(s) /\ CodeOf(s) => CodeOf(s)'
  BY ZenonT(30), <1>0, <1>1, <1>2, FaultFacts DEF CodeOf, Life, IsRunning
<1>6. Managed'
  BY Zenon, <1>0, <1>1, <1>2, <1>3, ManagedKept DEF IsRunning, Life
<1> QED
  BY Zenon, <1>1, <1>2, <1>3, <1>4, <1>5, <1>6, OneSession DEF Life, IsRunning

\* A resize records that the session has ended, without its code.
LEMMA ExecResizeKeeps ==
    ASSUME ExecConfigured, IInv, ExecTypeOK', NEW s \in Sessions, ExecResize(s)
    PROVE  Rest'
<1>0. Life(s) /\ (Calm => RecordedOf(s)) /\ ExecTypeOK /\ Managed
  BY Zenon DEF IInv, Lives, Recorded
<1>1. /\ sys' = sys /\ ctrState' = ctrState /\ mgr' = mgr
      /\ \A t \in Sessions \ {s} : Same(t)
  BY Zenon, <1>0 DEF ExecResize, Same, ExecTypeOK, db, files
<1>2. /\ Has("resize") /\ IsRunning(s) /\ process[s] = "dead"
      /\ ExecSessions'[s] # Nil /\ ExecSessions'[s].State = "stopped"
      /\ process'[s] = process[s] /\ bundle'[s] = bundle[s] /\ died'[s] = died[s]
      /\ client'[s] = client[s] /\ exitCode'[s] = exitCode[s] /\ result'[s] = result[s] /\ exitCmd'[s] = exitCmd[s]
      /\ s \in registry' <=> s \in registry
  <2>1. ExecSessions[s] \in Session
    BY Zenon, <1>0 DEF ExecResize, IsRunning, ExecTypeOK
  <2>2. ExecSessions' = [ExecSessions EXCEPT ![s] = [ExecSessions[s] EXCEPT !.State = "stopped"]]
    BY Zenon DEF ExecResize
  <2>3. ExecSessions'[s] = [ExecSessions[s] EXCEPT !.State = "stopped"]
    BY Zenon, <1>0, <2>2 DEF ExecTypeOK
  <2> QED
    BY Zenon, <1>0, <2>1, <2>3, SessionFacts DEF ExecResize, ExecTypeOK, files
<1>3. Life(s)'
  BY Zenon, <1>0, <1>1, <1>2, FaultFacts DEF Life, IsRunning
<1>4. Calm => RecordedOf(s)'
  BY Zenon, <1>0, <1>1, <1>2, FaultFacts DEF RecordedOf, IsRunning
<1>5. Quiet /\ Undisturbed(s) /\ CodeOf(s) => CodeOf(s)'
  BY Zenon, <1>0, <1>1, <1>2, FaultFacts DEF CodeOf, Life, IsRunning
<1>6. Managed'
  BY Zenon, <1>0, <1>1, <1>2, <1>3, ManagedKept DEF IsRunning, Life
<1> QED
  BY Zenon, <1>1, <1>2, <1>3, <1>4, <1>5, <1>6, OneSession DEF Life, IsRunning

\* A session is created, and registered unless the client is killed in between.
LEMMA ExecCreateKeeps ==
    ASSUME ExecConfigured, IInv, ExecTypeOK', NEW s \in Sessions, ExecCreate(s)
    PROVE  Rest'
<1>0. Life(s) /\ (Calm => RecordedOf(s)) /\ ExecTypeOK /\ Managed
  BY Zenon DEF IInv, Lives, Recorded
<1>1. /\ sys' = sys /\ ctrState' = ctrState /\ mgr' = mgr
      /\ \A t \in Sessions \ {s} : Same(t)
  BY <1>0 DEF ExecCreate, Same, ExecTypeOK, db, files
<1>2. /\ client[s] = "create" /\ process[s] = "none" /\ ExecSessions[s] = Nil
      /\ \/ /\ ExecSessions'[s] = Created /\ result'[s] = result[s] /\ ctrState = "running"
            /\ \/ s \in registry' /\ client'[s] = "start"
               \/ Has("die") /\ client'[s] = "done" /\ (s \in registry' <=> s \in registry)
         \/ /\ client'[s] = "done" /\ result'[s] = "error" /\ ExecSessions'[s] = ExecSessions[s]
            /\ s \in registry' <=> s \in registry
      /\ Created # Nil /\ Created.State = "created"
      /\ process'[s] = process[s] /\ bundle'[s] = bundle[s] /\ died'[s] = died[s]
      /\ exitCode'[s] = exitCode[s] /\ exitCmd'[s] = exitCmd[s]
  BY <1>0, SessionFacts DEF ExecCreate, ExecTypeOK, Life, files
<1>3. Life(s)'
  BY Zenon, <1>0, <1>1, <1>2, FaultFacts DEF Life, IsRunning
<1>4. Calm => RecordedOf(s)'
  BY Zenon, <1>0, <1>1, <1>2, FaultFacts DEF RecordedOf, IsRunning
<1>5. Quiet /\ Undisturbed(s) /\ CodeOf(s) => CodeOf(s)'
  BY Zenon, <1>0, <1>1, <1>2, FaultFacts DEF CodeOf, Life, IsRunning
<1>6. Managed'
  BY Zenon, <1>0, <1>1, <1>2, <1>3, ManagedKept DEF IsRunning, Life
<1> QED
  BY Zenon, <1>1, <1>2, <1>3, <1>4, <1>5, <1>6, OneSession DEF Life, IsRunning

\* A session is started: the bundle is there, and the session recorded as running
\* unless the client is killed in between.
LEMMA StartSessionKeeps ==
    ASSUME ExecConfigured, IInv, ExecTypeOK', NEW s \in Sessions, StartSession(s)
    PROVE  Rest'
<1>0. Life(s) /\ (Calm => RecordedOf(s)) /\ ExecTypeOK /\ Managed
  BY Zenon DEF IInv, Lives, Recorded
<1>1. /\ sys' = sys /\ ctrState' = ctrState /\ mgr' = mgr
      /\ \A t \in Sessions \ {s} : Same(t)
  <2>1. /\ client \in [Sessions -> Steps] /\ process \in [Sessions -> {"none", "alive", "dead"}]
        /\ ExecSessions \in [Sessions -> Session \cup {Nil}] /\ bundle \in [Sessions -> BOOLEAN]
        /\ result \in [Sessions -> Codes \cup {Nil, "error"}]
        /\ exitCmd \in [Sessions -> {"none", "wait", "bundle", "done"}]
    BY Zenon, <1>0 DEF ExecTypeOK
  <2>2. \A t \in Sessions \ {s} : client'[t] = client[t] /\ ExecSessions'[t] = ExecSessions[t]
    BY Zenon, <2>1 DEF StartSession
  <2>3. \A t \in Sessions \ {s} : process'[t] = process[t] /\ bundle'[t] = bundle[t]
    BY Zenon, <2>1 DEF StartSession
  <2>4. \A t \in Sessions \ {s} : result'[t] = result[t] /\ exitCmd'[t] = exitCmd[t]
    BY Zenon, <2>1 DEF StartSession
  <2>5. UNCHANGED <<sys, ctrState, registry, died, exitCode, mgr>>
    BY Zenon DEF StartSession
  <2> QED
    BY Zenon, <2>2, <2>3, <2>4, <2>5 DEF Same
<1>2. /\ client[s] = "start" /\ process[s] = "none"
      /\ died'[s] = died[s] /\ exitCode'[s] = exitCode[s]
      /\ s \in registry' <=> s \in registry
      /\ \/ /\ process'[s] = "alive" /\ bundle'[s] = TRUE /\ ctrState = "running"
            /\ ExecSessions[s] # Nil /\ result'[s] = result[s]
            /\ exitCmd'[s] \in {"none", "wait"}
            /\ \/ ExecSessions'[s] = Running /\ client'[s] \in {"attached", "done"}
               \/ /\ ExecSessions'[s] = ExecSessions[s] /\ ExecSessions[s].State = "created"
                  /\ Has("die") /\ client'[s] = "done"
         \/ /\ process'[s] = "none" /\ exitCmd'[s] = exitCmd[s] /\ result'[s] = "error"
            /\ client'[s] \in {"remove", "force remove", "done"}
            /\ \/ /\ Has("startfail") /\ ExecSessions'[s] = Stopped("generic")
                  /\ ExecSessions[s] # Nil
               \/ ExecSessions'[s] = ExecSessions[s]
      /\ Running # Nil /\ Running.State = "running"
      /\ Stopped("generic").State = "stopped" /\ Stopped("generic") # Nil
  <2>1. /\ Running # Nil /\ Running.State = "running"
        /\ Stopped("generic") # Nil /\ Stopped("generic").State = "stopped"
    BY Zenon, SessionFacts DEF Codes
  <2>2. client[s] = "start" /\ process[s] = "none" /\ exitCmd[s] = "none"
    BY Zenon, <1>0 DEF StartSession, Life
  <2>3. AfterFailure(s) \in {"remove", "force remove", "done"}
    BY Zenon DEF AfterFailure
  <2>4. /\ client \in [Sessions -> Steps] /\ process \in [Sessions -> {"none", "alive", "dead"}]
        /\ ExecSessions \in [Sessions -> Session \cup {Nil}] /\ bundle \in [Sessions -> BOOLEAN]
        /\ result \in [Sessions -> Codes \cup {Nil, "error"}]
        /\ exitCmd \in [Sessions -> {"none", "wait", "bundle", "done"}]
    BY Zenon, <1>0 DEF ExecTypeOK
  <2>5. /\ died'[s] = died[s] /\ exitCode'[s] = exitCode[s]
        /\ s \in registry' <=> s \in registry
    BY Zenon DEF StartSession
  <2>6. CASE ctrState = "running" /\ ExecSessions[s] # Nil /\ ExecSessions[s].State = "created"
    <3>1. bundle'[s] = TRUE
      BY Zenon, <2>4, <2>6 DEF StartSession
    <3>2. CASE /\ process' = [process EXCEPT ![s] = "alive"] /\ UNCHANGED result
               /\ exitCmd' = [exitCmd EXCEPT ![s] = IF Kind(s) = "health" THEN @ ELSE "wait"]
      <4>1. /\ process'[s] = "alive" /\ exitCmd'[s] \in {"none", "wait"}
            /\ result'[s] = result[s] /\ process' # process
        BY Zenon, <2>2, <2>4, <3>2
      <4>2. \/ ExecSessions'[s] = Running /\ client'[s] \in {"attached", "done"}
            \/ ExecSessions'[s] = ExecSessions[s] /\ Has("die") /\ client'[s] = "done"
        BY ZenonT(30), <2>4, <2>6, <4>1 DEF StartSession
      <4> QED
        BY Zenon, <2>1, <2>2, <2>5, <2>6, <3>1, <4>1, <4>2
    <3>3. CASE /\ Has("startfail") /\ client' = [client EXCEPT ![s] = AfterFailure(s)]
               /\ result' = [result EXCEPT ![s] = "error"] /\ UNCHANGED <<process, exitCmd>>
      <4>1. /\ client'[s] \in {"remove", "force remove", "done"} /\ result'[s] = "error"
            /\ process'[s] = "none" /\ exitCmd'[s] = exitCmd[s] /\ Has("startfail")
        BY Zenon, <2>2, <2>3, <2>4, <3>3
      <4>2. ExecSessions'[s] = Stopped("generic") \/ ExecSessions'[s] = ExecSessions[s]
        BY Zenon, <2>4, <2>6, <4>1 DEF StartSession
      <4> QED
        BY Zenon, <2>1, <2>2, <2>5, <2>6, <4>1, <4>2
    <3> QED
      BY Zenon, <2>6, <3>2, <3>3 DEF StartSession
  <2>7. CASE ~(ctrState = "running" /\ ExecSessions[s] # Nil /\ ExecSessions[s].State = "created")
    <3>1. /\ client' = [client EXCEPT ![s] = AfterFailure(s)]
          /\ result' = [result EXCEPT ![s] = "error"]
          /\ UNCHANGED <<process, ExecSessions, exitCmd>>
      BY Zenon, <2>7 DEF StartSession
    <3>2. /\ client'[s] \in {"remove", "force remove", "done"} /\ result'[s] = "error"
          /\ process'[s] = "none" /\ exitCmd'[s] = exitCmd[s]
          /\ ExecSessions'[s] = ExecSessions[s]
      BY Zenon, <2>2, <2>3, <2>4, <3>1
    <3> QED
      BY Zenon, <2>1, <2>2, <2>5, <3>2
  <2> QED
    BY Zenon, <2>6, <2>7
<1>3. Life(s)'
  BY Zenon, <1>0, <1>1, <1>2, FaultFacts DEF Life, IsRunning
<1>4. Calm => RecordedOf(s)'
  BY Zenon, <1>0, <1>1, <1>2, FaultFacts DEF RecordedOf, IsRunning
<1>5. Quiet /\ Undisturbed(s) /\ CodeOf(s) => CodeOf(s)'
  <2> SUFFICES ASSUME Quiet, Undisturbed(s), CodeOf(s) PROVE CodeOf(s)'
    BY Zenon
  <2>1. CASE process'[s] = "alive"
    <3>1. /\ client'[s] \in {"attached", "done"} /\ result'[s] = Nil /\ bundle'[s] = TRUE
          /\ ExecSessions'[s] # Nil /\ ExecSessions'[s].State # "stopped"
      BY Zenon, <1>2, <2>1 DEF CodeOf
    <3> QED
      BY Zenon, <1>1, <1>2, <3>1, FaultFacts DEF CodeOf
  <2>2. CASE process'[s] = "none"
    <3>1. /\ client'[s] \in {"remove", "force remove", "done"} /\ result'[s] = "error"
          /\ ExecSessions'[s] = ExecSessions[s]
      BY Zenon, <1>2, <2>2, FaultFacts
    <3> QED
      BY ZenonT(30), <1>1, <1>2, <2>2, <3>1, FaultFacts DEF CodeOf
  <2> QED
    BY Zenon, <1>2, <2>1, <2>2
<1>6. Managed'
  BY Zenon, <1>0, <1>1, <1>2, <1>3, ManagedKept DEF IsRunning, Life
<1> QED
  BY Zenon, <1>1, <1>2, <1>3, <1>4, <1>5, <1>6, OneSession DEF Life, IsRunning

\* The client writes the code it has read, or leaves it to who has recorded one: it writes
\* minus one only if the container is being removed.
LEMMA WriteExitCodeKeeps ==
    ASSUME ExecConfigured, IInv, ExecTypeOK', NEW s \in Sessions, WriteExitCode(s)
    PROVE  Rest'
<1>0. Life(s) /\ (Calm => RecordedOf(s)) /\ ExecTypeOK /\ Managed
  BY Zenon DEF IInv, Lives, Recorded
<1>1. /\ sys' = sys /\ ctrState' = ctrState /\ mgr' = mgr
      /\ \A t \in Sessions \ {s} : Same(t)
  <2>1. /\ sys' = sys /\ ctrState' = ctrState /\ mgr' = mgr
        /\ UNCHANGED <<registry, process, bundle, exitCode, exitCmd>>
    BY Zenon DEF WriteExitCode, files
  <2>3. \A t \in Sessions \ {s} : client'[t] = client[t] /\ result'[t] = result[t]
    <3>1. client \in [Sessions -> Steps] /\ result \in [Sessions -> Codes \cup {Nil, "error"}]
      BY Zenon, <1>0 DEF ExecTypeOK
    <3> QED
      BY Zenon, <3>1 DEF WriteExitCode
  <2>2. \A t \in Sessions \ {s} : ExecSessions'[t] = ExecSessions[t] /\ died'[t] = died[t]
    <3>1. CASE UNCHANGED <<ExecSessions, died>>
      BY Zenon, <3>1
    <3>2. CASE justWriteExecExitCode(s, exitCode[s], Kind(s) # "health")
      <4>1. exitCode[s] \in Codes /\ (Kind(s) # "health") \in BOOLEAN
        BY Zenon, <1>0 DEF WriteExitCode, Life, Codes
      <4> QED
        BY Zenon, <1>0, <3>2, <4>1, WriteFacts
    <3> QED
      BY Zenon, <3>1, <3>2 DEF WriteExitCode
  <2> QED
    BY Zenon, <2>1, <2>2, <2>3 DEF Same
<1>2. /\ client[s] = "write" /\ exitCode[s] \in {"real", "minus one"}
      /\ process'[s] = process[s] /\ bundle'[s] = bundle[s] /\ exitCode'[s] = exitCode[s] /\ exitCmd'[s] = exitCmd[s]
      /\ s \in registry' <=> s \in registry
      /\ \/ /\ client'[s] = "report" /\ Kind(s) # "http"
            /\ ExecSessions'[s] = ExecSessions[s] /\ died'[s] = died[s] /\ result'[s] = result[s]
            /\ \/ ctrState = "gone" \/ ExecSessions[s] = Nil
               \/ ExecSessions[s].State = "stopped"
         \/ /\ client'[s] = "bundle"
            /\ result'[s] = IF exitCode[s] = "real" THEN result[s] ELSE "error"
            /\ \/ /\ ctrState = "gone" /\ Kind(s) = "http"
                  /\ ExecSessions'[s] = ExecSessions[s] /\ died'[s] = died[s]
               \/ /\ \/ Kind(s) = "http" \/ exitCode[s] = "real"
                     \/ ExecSessions[s] # Nil /\ ExecSessions[s].State # "stopped"
                  /\ justWriteExecExitCode(s, exitCode[s], Kind(s) # "health")
  <2>1. /\ client[s] = "write" /\ exitCode[s] \in {"real", "minus one"}
        /\ UNCHANGED <<process, bundle, exitCode, exitCmd, registry>>
    BY Zenon, <1>0 DEF WriteExitCode, Life, files
  <2>2. CASE Kind(s) # "http" /\ (ctrState = "gone" \/
                (/\ exitCode[s] = "minus one"
                 /\ ExecSessions[s] = Nil \/ ExecSessions[s].State = "stopped"))
    <3>1. client' = [client EXCEPT ![s] = "report"] /\ UNCHANGED <<ExecSessions, died, result>>
      BY Zenon, <2>2 DEF WriteExitCode
    <3>2. client'[s] = "report"
      BY Zenon, <1>0, <3>1 DEF ExecTypeOK
    <3> QED
      BY Zenon, <2>1, <2>2, <3>1, <3>2
  <2>3. CASE ~(Kind(s) # "http" /\ (ctrState = "gone" \/
                (/\ exitCode[s] = "minus one"
                 /\ ExecSessions[s] = Nil \/ ExecSessions[s].State = "stopped")))
    <3>1. /\ client' = [client EXCEPT ![s] = "bundle"]
          /\ result' = [result EXCEPT ![s] = IF exitCode[s] = "real" THEN @ ELSE "error"]
          /\ IF ctrState = "gone" THEN UNCHANGED <<ExecSessions, died>>
             ELSE justWriteExecExitCode(s, exitCode[s], Kind(s) # "health")
      BY Zenon, <2>3 DEF WriteExitCode
    <3>2. client'[s] = "bundle" /\ result'[s] = IF exitCode[s] = "real" THEN result[s] ELSE "error"
      BY Zenon, <1>0, <3>1 DEF ExecTypeOK
    <3> QED
      BY Zenon, <2>1, <2>3, <3>1, <3>2
  <2> QED
    BY Zenon, <2>2, <2>3
<1>3. Life(s)'
  <2>1. CASE justWriteExecExitCode(s, exitCode[s], Kind(s) # "health") /\ client'[s] = "bundle"
    <3>1. exitCode[s] \in Codes /\ (Kind(s) # "health") \in BOOLEAN
      BY Zenon, <1>2 DEF Codes
    <3>2. /\ ExecSessions[s] = Nil => ExecSessions'[s] = Nil
          /\ ExecSessions[s] # Nil => ExecSessions'[s] # Nil /\ ExecSessions'[s].State = "stopped"
      BY Zenon, <1>0, <2>1, <3>1, WriteFacts
    <3> QED
      BY Zenon, <1>0, <1>1, <1>2, <2>1, <3>2, FaultFacts DEF Life, IsRunning
  <2>2. CASE ~justWriteExecExitCode(s, exitCode[s], Kind(s) # "health") \/ client'[s] # "bundle"
    BY Zenon, <1>0, <1>1, <1>2, <2>2, FaultFacts DEF Life, IsRunning
  <2> QED
    BY Zenon, <2>1, <2>2
<1>4. Calm => RecordedOf(s)'
  BY Zenon, <1>0, <1>2, FaultFacts DEF RecordedOf
<1>5. Quiet /\ Undisturbed(s) /\ CodeOf(s) => CodeOf(s)'
  <2> SUFFICES ASSUME Quiet, Undisturbed(s), CodeOf(s) PROVE CodeOf(s)'
    BY Zenon
  <2>0. /\ result[s] = Nil /\ process[s] = "dead"
        /\ exitCode[s] = "minus one" /\ (IsRunning(s) \/ Kind(s) = "http") => Removal
    BY Zenon, <1>2 DEF CodeOf
  <2>1. CASE client'[s] = "report"
    BY Zenon, <1>1, <1>2, <2>0, <2>1, FaultFacts DEF CodeOf
  <2>2. CASE client'[s] = "bundle" /\ ExecSessions'[s] = ExecSessions[s] /\ died'[s] = died[s]
             /\ Kind(s) = "http"
    BY Zenon, <1>1, <1>2, <2>0, <2>2, FaultFacts DEF CodeOf
  <2>3. CASE /\ client'[s] = "bundle"
             /\ \/ Kind(s) = "http" \/ exitCode[s] = "real"
                \/ ExecSessions[s] # Nil /\ ExecSessions[s].State # "stopped"
             /\ justWriteExecExitCode(s, exitCode[s], Kind(s) # "health")
    <3>1. exitCode[s] \in Codes /\ (Kind(s) # "health") \in BOOLEAN
      BY Zenon, <1>2 DEF Codes
    <3>2. /\ ExecSessions[s] = Nil => ExecSessions'[s] = Nil
          /\ ExecSessions[s] # Nil => /\ ExecSessions'[s] # Nil
                                      /\ ExecSessions'[s].State = "stopped"
                                      /\ ExecSessions'[s].ExitCode = exitCode[s]
          /\ Kind(s) # "health" => died'[s] # <<>>
          /\ \A i \in 1..Len(died'[s]) : died'[s][i] = exitCode[s] \/
                (i \in 1..Len(died[s]) /\ died'[s][i] = died[s][i])
      BY Zenon, <1>0, <2>3, <3>1, WriteFacts
    <3>3. exitCode[s] = "minus one" => Removal
      <4>1. ExecSessions[s] # Nil => ExecSessions[s].State \in {"created", "running", "stopped"}
        BY Zenon, <1>0, StateOf
      <4>2. ExecSessions[s] # Nil => ExecSessions[s].State # "created"
        BY Zenon, <1>0, <1>2, <2>0 DEF Life
      <4> QED
        BY Zenon, <2>0, <2>3, <4>1, <4>2 DEF IsRunning
    <3>4. result'[s] = IF exitCode[s] = "real" THEN Nil ELSE "error"
      BY Zenon, <1>2, <2>0, <2>3
    <3>5. /\ (\E i \in 1..Len(died[s]) : died[s][i] # "real") =>
                Has("rm") /\ result[s] = "error"
          /\ ExecSessions[s] = Nil /\ ~Has("stop") =>
                IF Kind(s) = "health" THEN Has("rmexec") ELSE died[s] # <<>>
      BY Zenon, <1>2 DEF CodeOf
    <3>6. (\E i \in 1..Len(died'[s]) : died'[s][i] # "real") => Has("rm") /\ result'[s] = "error"
      <4>1. CASE exitCode[s] = "real"
        BY Zenon, <2>0, <3>2, <3>4, <3>5, <4>1
      <4>2. CASE exitCode[s] = "minus one"
        BY Zenon, <3>3, <3>4, <4>2, FaultFacts
      <4> QED
        BY Zenon, <1>2, <4>1, <4>2
    <3> QED
      BY Zenon, <1>1, <1>2, <2>0, <2>3, <3>2, <3>3, <3>4, <3>5, <3>6, FaultFacts DEF CodeOf
  <2> QED
    BY Zenon, <1>2, <2>1, <2>2, <2>3
<1>6. Managed'
  BY Zenon, <1>0, <1>1, <1>2, <1>3, ManagedKept DEF IsRunning, Life
<1> QED
  BY Zenon, <1>1, <1>2, <1>3, <1>4, <1>5, <1>6, OneSession DEF Life, IsRunning

\* The client returns the code of the session, or of its last event.
LEMMA ReportExitCodeKeeps ==
    ASSUME ExecConfigured, IInv, ExecTypeOK', NEW s \in Sessions, ReportExitCode(s)
    PROVE  Rest'
<1>0. Life(s) /\ (Calm => RecordedOf(s)) /\ ExecTypeOK /\ Managed
  BY Zenon DEF IInv, Lives, Recorded
<1>1. /\ sys' = sys /\ ctrState' = ctrState /\ mgr' = mgr
      /\ \A t \in Sessions \ {s} : Same(t)
  BY Zenon, <1>0 DEF ReportExitCode, Same, ExecTypeOK, db, files
<1>2. /\ client[s] = "report" /\ client'[s] = "remove"
      /\ ExecSessions'[s] = ExecSessions[s] /\ process'[s] = process[s] /\ bundle'[s] = bundle[s]
      /\ died'[s] = died[s] /\ exitCode'[s] = exitCode[s] /\ exitCmd'[s] = exitCmd[s]
      /\ s \in registry' <=> s \in registry
      /\ result'[s] = IF result[s] = "error" \/ ctrState = "gone" THEN "error"
                      ELSE IF ExecSessions[s] # Nil THEN ExecSessions[s].ExitCode
                      ELSE IF died[s] # <<>> THEN died[s][Len(died[s])] ELSE "error"
  BY Zenon, <1>0 DEF ReportExitCode, ExecTypeOK, db, files
<1>3. Life(s)'
  BY Zenon, <1>0, <1>1, <1>2, FaultFacts DEF Life, IsRunning
<1>4. Calm => RecordedOf(s)'
  BY Zenon, <1>0, <1>1, <1>2, FaultFacts DEF RecordedOf, IsRunning
<1>5. Quiet /\ Undisturbed(s) /\ CodeOf(s) => CodeOf(s)'
  <2> SUFFICES ASSUME Quiet, Undisturbed(s), CodeOf(s) PROVE CodeOf(s)'
    BY Zenon
  <2>1. result[s] = "error" => result'[s] = "error"
    BY Zenon, <1>2
  <2>2. process[s] # "none" =>
            result'[s] \in {Nil, "real"} \cup (IF MayError(s) THEN {"error"} ELSE {})
    <3> SUFFICES ASSUME process[s] # "none"
                 PROVE  result'[s] \in {Nil, "real"} \/ (result'[s] = "error" /\ MayError(s))
      BY Zenon
    <3>1. CASE result[s] = "error"
      BY Zenon, <1>2, <2>1, <3>1 DEF CodeOf
    <3>2. CASE ctrState = "gone" /\ result[s] # "error"
      BY Zenon, <1>0, <1>2, <3>2, FaultFacts DEF Managed
    <3>3. CASE ctrState # "gone" /\ result[s] # "error" /\ ExecSessions[s] # Nil
      <4>1. ExecSessions[s].State \in {"created", "running", "stopped"}
        BY Zenon, <1>0, <3>3, StateOf
      <4>2. ExecSessions[s].State = "stopped"
        BY Zenon, <1>0, <1>2, <3>3, <4>1 DEF Life, IsRunning
      <4>3. ExecSessions[s].ExitCode = "real"
        BY Zenon, <1>2, <3>3, <4>2 DEF CodeOf
      <4> QED
        BY Zenon, <1>2, <3>3, <4>3
    <3>4. CASE ctrState # "gone" /\ result[s] # "error" /\ ExecSessions[s] = Nil /\ died[s] # <<>>
      <4>1. died[s] \in Seq(Codes)
        BY Zenon, <1>0 DEF ExecTypeOK
      <4>2. Len(died[s]) \in 1..Len(died[s])
        BY <3>4, <4>1
      <4>3. died[s][Len(died[s])] = "real"
        BY Zenon, <1>2, <3>4, <4>2 DEF CodeOf
      <4> QED
        BY Zenon, <1>2, <3>4, <4>3
    <3>5. CASE ctrState # "gone" /\ result[s] # "error" /\ ExecSessions[s] = Nil /\ died[s] = <<>>
      <4>1. result'[s] = "error"
        BY Zenon, <1>2, <3>5
      <4>2. Has("stop") \/ (Kind(s) = "health" /\ Has("rmexec"))
        BY Zenon, <1>2, <3>5 DEF CodeOf
      <4> QED
        BY Zenon, <4>1, <4>2, FaultFacts
    <3> QED
      BY Zenon, <3>1, <3>2, <3>3, <3>4, <3>5
  <2> QED
    BY Zenon, <1>1, <1>2, <2>1, <2>2, FaultFacts DEF CodeOf
<1>6. Managed'
  BY Zenon, <1>0, <1>1, <1>2, <1>3, ManagedKept DEF IsRunning, Life
<1> QED
  BY Zenon, <1>1, <1>2, <1>3, <1>4, <1>5, <1>6, OneSession DEF Life, IsRunning

\* What ExecRemove does to its session.
LEMMA RemovedOnce ==
    ASSUME ExecConfigured, ExecTypeOK, NEW s \in Sessions, NEW err \in BOOLEAN, ExecRemove(s, err)
    PROVE  /\ ExecSessions'[s] = ExecSessions[s] \/ ExecSessions'[s] = Nil \/
                 (/\ ExecSessions'[s] # Nil /\ ExecSessions'[s].State = "stopped"
                  /\ ExecSessions'[s].ExitCode = "real" /\ s \notin registry /\ IsRunning(s))
           /\ ExecSessions'[s] # ExecSessions[s] /\ IsRunning(s) =>
                 process[s] # "alive" /\ died'[s] # <<>>
           /\ \A i \in 1..Len(died'[s]) : died'[s][i] = "real" \/
                 (i \in 1..Len(died[s]) /\ died'[s][i] = died[s][i])
           /\ died[s] # <<>> => died'[s] # <<>>
           /\ (s \in registry <=> ExecSessions[s] # Nil) =>
                 (s \in registry' <=> ExecSessions'[s] # Nil)
<1>1. \/ ExecSessions'[s] = ExecSessions[s]
      \/ ExecSessions'[s] = Nil /\ s \in registry /\ s \notin registry'
      \/ /\ ExecSessions'[s] # Nil /\ ExecSessions'[s].State = "stopped"
         /\ ExecSessions'[s].ExitCode = "real" /\ s \notin registry /\ IsRunning(s)
  BY Zenon, RemoveFacts
<1>2. /\ ExecSessions'[s] = ExecSessions[s] => (s \in registry' <=> s \in registry)
      /\ ExecSessions'[s] # Nil => (s \in registry' <=> s \in registry)
  BY Zenon, RemoveFacts
<1>3. (s \in registry <=> ExecSessions[s] # Nil) => (s \in registry' <=> ExecSessions'[s] # Nil)
  BY Zenon, <1>1, <1>2 DEF IsRunning
<1>4. ExecSessions'[s] # ExecSessions[s] /\ IsRunning(s) => process[s] # "alive" /\ died'[s] # <<>>
  BY Zenon, RemoveFacts
<1>5. \A i \in 1..Len(died'[s]) : died'[s][i] = "real" \/
            (i \in 1..Len(died[s]) /\ died'[s][i] = died[s][i])
  BY Zenon, RemoveFacts
<1>6. died[s] # <<>> => died'[s] # <<>>
  BY Zenon, RemoveFacts
<1> QED
  BY Zenon, <1>1, <1>3, <1>4, <1>5, <1>6

\* The client removes its session: it fails only if the container is gone.
LEMMA ClientRemovesKeeps ==
    ASSUME ExecConfigured, IInv, ExecTypeOK', NEW s \in Sessions, ClientRemoves(s)
    PROVE  Rest'
<1>0. Life(s) /\ (Calm => RecordedOf(s)) /\ ExecTypeOK /\ Managed
  BY Zenon DEF IInv, Lives, Recorded
<1>1. /\ sys' = sys /\ ctrState' = ctrState /\ mgr' = mgr
      /\ \A t \in Sessions \ {s} : Same(t)
  <2>1. PICK err \in BOOLEAN : /\ ExecRemove(s, err)
                               /\ result' = IF err THEN [result EXCEPT ![s] = "error"] ELSE result
    BY Zenon DEF ClientRemoves
  <2>2. \A t \in Sessions \ {s} : /\ ExecSessions'[t] = ExecSessions[t] /\ died'[t] = died[t]
                                  /\ t \in registry' <=> t \in registry
    BY Zenon, <1>0, <2>1, RemoveFacts
  <2>3. \A t \in Sessions \ {s} : client'[t] = client[t] /\ result'[t] = result[t]
    BY Zenon, <1>0, <2>1 DEF ClientRemoves, ExecTypeOK
  <2> QED
    BY Zenon, <2>2, <2>3 DEF ClientRemoves, Same, files
<1>2. /\ client[s] \in {"remove", "force remove"} /\ client'[s] = "done"
      /\ process'[s] = process[s] /\ bundle'[s] = bundle[s]
      /\ exitCode'[s] = exitCode[s] /\ exitCmd'[s] = exitCmd[s]
      /\ result'[s] = result[s] \/ (result'[s] = "error" /\ MayError(s))
      /\ ExecSessions'[s] = ExecSessions[s] \/ ExecSessions'[s] = Nil \/
            (/\ ExecSessions'[s] # Nil /\ ExecSessions'[s].State = "stopped"
             /\ ExecSessions'[s].ExitCode = "real" /\ s \notin registry /\ IsRunning(s))
      /\ ExecSessions'[s] # ExecSessions[s] /\ IsRunning(s) =>
            process[s] # "alive" /\ died'[s] # <<>>
      /\ \A i \in 1..Len(died'[s]) : died'[s][i] = "real" \/
            (i \in 1..Len(died[s]) /\ died'[s][i] = died[s][i])
      /\ died[s] # <<>> => died'[s] # <<>>
      /\ (s \in registry <=> ExecSessions[s] # Nil) =>
            (s \in registry' <=> ExecSessions'[s] # Nil)
  <2>1. PICK err \in BOOLEAN : /\ ExecRemove(s, err)
                               /\ result' = IF err THEN [result EXCEPT ![s] = "error"] ELSE result
    BY Zenon DEF ClientRemoves
  <2>2. err => MayError(s)
    <3>1. ~IsRunning(s) /\ (s \in registry <=> ExecSessions[s] # Nil)
      BY Zenon, <1>0 DEF ClientRemoves, Life
    <3>2. err => ctrState = "gone"
      BY Zenon, <1>0, <2>1, <3>1, RemoveFacts
    <3> QED
      BY Zenon, <1>0, <3>2, FaultFacts DEF Managed
  <2>3. result'[s] = IF err THEN "error" ELSE result[s]
    BY Zenon, <1>0, <2>1 DEF ExecTypeOK
  <2>4. /\ client[s] \in {"remove", "force remove"} /\ client'[s] = "done"
        /\ UNCHANGED <<process, bundle, exitCode, exitCmd>>
    BY Zenon, <1>0 DEF ClientRemoves, ExecTypeOK, files
  <2>5. /\ ExecSessions'[s] = ExecSessions[s] \/ ExecSessions'[s] = Nil \/
              (/\ ExecSessions'[s] # Nil /\ ExecSessions'[s].State = "stopped"
               /\ ExecSessions'[s].ExitCode = "real" /\ s \notin registry /\ IsRunning(s))
        /\ ExecSessions'[s] # ExecSessions[s] /\ IsRunning(s) =>
              process[s] # "alive" /\ died'[s] # <<>>
        /\ \A i \in 1..Len(died'[s]) : died'[s][i] = "real" \/
              (i \in 1..Len(died[s]) /\ died'[s][i] = died[s][i])
        /\ died[s] # <<>> => died'[s] # <<>>
        /\ (s \in registry <=> ExecSessions[s] # Nil) =>
              (s \in registry' <=> ExecSessions'[s] # Nil)
    BY Zenon, <1>0, <2>1, RemovedOnce
  <2> QED
    BY Zenon, <2>2, <2>3, <2>4, <2>5
<1>3. Life(s)'
  BY Zenon, <1>0, <1>1, <1>2, FaultFacts DEF Life, IsRunning
<1>4. Calm => RecordedOf(s)'
  BY Zenon, <1>0, <1>1, <1>2, FaultFacts DEF RecordedOf, IsRunning
<1>5. Quiet /\ Undisturbed(s) /\ CodeOf(s) => CodeOf(s)'
  <2> SUFFICES ASSUME Quiet, Undisturbed(s), CodeOf(s) PROVE CodeOf(s)'
    BY Zenon
  <2>1. /\ (\E i \in 1..Len(died[s]) : died[s][i] # "real") => Has("rm")
        /\ ExecSessions[s] # Nil /\ ExecSessions[s].State = "stopped"
              /\ ExecSessions[s].ExitCode # "real" => Has("rm")
        /\ Kind(s) # "health" /\ ExecSessions[s] # Nil /\ ExecSessions[s].State = "stopped" =>
              died[s] # <<>>
        /\ process[s] # "none" =>
              result[s] \in {Nil, "real"} \cup (IF MayError(s) THEN {"error"} ELSE {})
    BY Zenon, <1>0, <1>2 DEF CodeOf, Life
  <2>2. (\E i \in 1..Len(died'[s]) : died'[s][i] # "real") => Has("rm")
    BY Zenon, <1>2, <2>1
  <2>3. process[s] # "none" =>
            result'[s] \in {Nil, "real"} \cup (IF MayError(s) THEN {"error"} ELSE {})
    BY Zenon, <1>2, <2>1
  <2>4. ~IsRunning(s)
    BY Zenon, <1>0, <1>2 DEF Life
  <2> QED
    BY Zenon, <1>1, <1>2, <2>1, <2>2, <2>3, <2>4, FaultFacts DEF CodeOf
<1>6. Managed'
  BY Zenon, <1>0, <1>1, <1>2, <1>3, ManagedKept DEF IsRunning, Life
<1> QED
  BY Zenon, <1>1, <1>2, <1>3, <1>4, <1>5, <1>6, OneSession DEF Life, IsRunning

\* The exit command records the code of a session that is recorded as running.
LEMMA ExecCleanupKeeps ==
    ASSUME ExecConfigured, IInv, ExecTypeOK', NEW s \in Sessions, ExecCleanup(s)
    PROVE  Rest'
<1>0. Life(s) /\ (Calm => RecordedOf(s)) /\ ExecTypeOK /\ Managed
  BY Zenon DEF IInv, Lives, Recorded
<1>1. /\ sys' = sys /\ ctrState' = ctrState /\ mgr' = mgr
      /\ \A t \in Sessions \ {s} : Same(t)
  <2>1. "real" \in Codes
    BY Zenon DEF Codes
  <2>2. \A t \in Sessions \ {s} : ExecSessions'[t] = ExecSessions[t] /\ died'[t] = died[t]
    <3>1. CASE UNCHANGED <<ExecSessions, died>>
      BY Zenon, <3>1
    <3>2. CASE justWriteExecExitCode(s, "real", TRUE)
      BY Zenon, <1>0, <2>1, <3>2, WriteFacts
    <3> QED
      BY Zenon, <3>1, <3>2 DEF ExecCleanup
  <2> QED
    BY Zenon, <1>0, <2>2 DEF ExecCleanup, Same, ExecTypeOK, files
<1>2. /\ Kind(s) # "http" /\ process[s] = "dead" /\ exitCmd'[s] \in {"done", "bundle"}
      /\ process'[s] = process[s] /\ bundle'[s] = bundle[s]
      /\ client'[s] = client[s] /\ exitCode'[s] = exitCode[s] /\ result'[s] = result[s]
      /\ s \in registry' <=> s \in registry
      /\ ExecSessions'[s] = Nil <=> ExecSessions[s] = Nil
      /\ IsRunning(s)' => IsRunning(s)
      /\ \/ justWriteExecExitCode(s, "real", TRUE)
         \/ /\ ExecSessions'[s] = ExecSessions[s] /\ died'[s] = died[s]
            /\ exitCmd'[s] = "bundle" => ~IsRunning(s)
  <2>1. "real" \in Codes
    BY Zenon DEF Codes
  <2>2. /\ ExecSessions'[s] = Nil <=> ExecSessions[s] = Nil
        /\ IsRunning(s)' => IsRunning(s)
    <3>1. CASE UNCHANGED <<ExecSessions, died>>
      BY Zenon, <3>1 DEF IsRunning
    <3>2. CASE justWriteExecExitCode(s, "real", TRUE)
      BY Zenon, <1>0, <2>1, <3>2, WriteFacts DEF IsRunning
    <3> QED
      BY Zenon, <3>1, <3>2 DEF ExecCleanup
  <2> QED
    BY Zenon, <1>0, <2>2 DEF ExecCleanup, ConmonEnds, ExecTypeOK, files
<1>3. Life(s)'
  <2>1. CASE justWriteExecExitCode(s, "real", TRUE)
    <3>1. "real" \in Codes
      BY Zenon DEF Codes
    <3>2. /\ ExecSessions[s] = Nil => ExecSessions'[s] = Nil
          /\ ExecSessions[s] # Nil => ExecSessions'[s] # Nil /\ ExecSessions'[s].State = "stopped"
      BY Zenon, <1>0, <2>1, <3>1, WriteFacts
    <3> QED
      BY Zenon, <1>0, <1>1, <1>2, <3>2, FaultFacts DEF Life, IsRunning
  <2>2. CASE ~justWriteExecExitCode(s, "real", TRUE)
    BY Zenon, <1>0, <1>1, <1>2, <2>2, FaultFacts DEF Life, IsRunning
  <2> QED
    BY Zenon, <2>1, <2>2
<1>4. Calm => RecordedOf(s)'
  BY Zenon, <1>0, <1>1, <1>2, FaultFacts DEF RecordedOf
<1>5. Quiet /\ Undisturbed(s) /\ CodeOf(s) => CodeOf(s)'
  <2> SUFFICES ASSUME Quiet, Undisturbed(s), CodeOf(s) PROVE CodeOf(s)'
    BY Zenon
  <2>1. CASE justWriteExecExitCode(s, "real", TRUE)
    <3>1. "real" \in Codes
      BY Zenon DEF Codes
    <3>2. /\ ExecSessions[s] = Nil => ExecSessions'[s] = Nil
          /\ ExecSessions[s] # Nil => /\ ExecSessions'[s] # Nil
                                      /\ ExecSessions'[s].State = "stopped"
                                      /\ ExecSessions'[s].ExitCode = "real"
          /\ died'[s] # <<>>
          /\ \A i \in 1..Len(died'[s]) : died'[s][i] = "real" \/
                (i \in 1..Len(died[s]) /\ died'[s][i] = died[s][i])
      BY Zenon, <1>0, <2>1, <3>1, WriteFacts
    <3>3. (\E i \in 1..Len(died'[s]) : died'[s][i] # "real") =>
              \E i \in 1..Len(died[s]) : died[s][i] # "real"
      BY Zenon, <3>2
    <3>4. (\E i \in 1..Len(died'[s]) : died'[s][i] # "real") =>
              Has("rm") /\ (client[s] = "done" \/ result[s] = "error")
      BY Zenon, <3>3 DEF CodeOf
    <3>5. IsRunning(s)' = FALSE
      BY Zenon, <3>2 DEF IsRunning
    <3> QED
      BY Zenon, <1>1, <1>2, <3>2, <3>4, <3>5, FaultFacts DEF CodeOf
  <2>2. CASE ~justWriteExecExitCode(s, "real", TRUE)
    BY Zenon, <1>0, <1>1, <1>2, <2>2, FaultFacts DEF CodeOf, IsRunning
  <2> QED
    BY Zenon, <2>1, <2>2
<1>6. Managed'
  BY Zenon, <1>0, <1>1, <1>2, <1>3, ManagedKept DEF IsRunning, Life
<1> QED
  BY Zenon, <1>1, <1>2, <1>3, <1>4, <1>5, <1>6, OneSession DEF Life, IsRunning

\* A session is removed by somebody else than its client, its code recorded first.
LEMMA ExecRemoveKeeps ==
    ASSUME ExecConfigured, IInv, ExecTypeOK', NEW s \in Sessions, NEW err \in BOOLEAN,
           ExecRemove(s, err),
           UNCHANGED <<sys, ctrState, files, client, exitCode, result, mgr>>,
           \A t \in Sessions \ {s} : exitCmd'[t] = exitCmd[t],
           exitCmd'[s] = exitCmd[s] \/ (exitCmd'[s] = "done" /\ process[s] # "none"),
           Kind(s) = "health" => Has("rmexec")
    PROVE  Rest'
<1>0. Life(s) /\ (Calm => RecordedOf(s)) /\ ExecTypeOK /\ Managed
  BY Zenon DEF IInv, Lives, Recorded
<1>1. /\ sys' = sys /\ ctrState' = ctrState /\ mgr' = mgr
      /\ \A t \in Sessions \ {s} : Same(t)
  <2>1. \A t \in Sessions \ {s} : /\ ExecSessions'[t] = ExecSessions[t] /\ died'[t] = died[t]
                                  /\ t \in registry' <=> t \in registry
    BY Zenon, <1>0, RemoveFacts
  <2> QED
    BY Zenon, <2>1 DEF Same, files
<1>2. /\ process'[s] = process[s] /\ bundle'[s] = bundle[s]
      /\ client'[s] = client[s] /\ exitCode'[s] = exitCode[s] /\ result'[s] = result[s]
      /\ ExecSessions'[s] = ExecSessions[s] \/ ExecSessions'[s] = Nil \/
            (/\ ExecSessions'[s] # Nil /\ ExecSessions'[s].State = "stopped"
             /\ ExecSessions'[s].ExitCode = "real" /\ s \notin registry /\ IsRunning(s))
      /\ ExecSessions'[s] # ExecSessions[s] /\ IsRunning(s) =>
            process[s] # "alive" /\ died'[s] # <<>>
      /\ \A i \in 1..Len(died'[s]) : died'[s][i] = "real" \/
            (i \in 1..Len(died[s]) /\ died'[s][i] = died[s][i])
      /\ died[s] # <<>> => died'[s] # <<>>
      /\ (s \in registry <=> ExecSessions[s] # Nil) =>
            (s \in registry' <=> ExecSessions'[s] # Nil)
  <2>1. /\ ExecSessions'[s] = ExecSessions[s] \/ ExecSessions'[s] = Nil \/
              (/\ ExecSessions'[s] # Nil /\ ExecSessions'[s].State = "stopped"
               /\ ExecSessions'[s].ExitCode = "real" /\ s \notin registry /\ IsRunning(s))
        /\ ExecSessions'[s] # ExecSessions[s] /\ IsRunning(s) =>
              process[s] # "alive" /\ died'[s] # <<>>
        /\ \A i \in 1..Len(died'[s]) : died'[s][i] = "real" \/
              (i \in 1..Len(died[s]) /\ died'[s][i] = died[s][i])
        /\ died[s] # <<>> => died'[s] # <<>>
        /\ (s \in registry <=> ExecSessions[s] # Nil) =>
              (s \in registry' <=> ExecSessions'[s] # Nil)
    BY Zenon, <1>0, RemovedOnce
  <2> QED
    BY Zenon, <2>1 DEF files
<1>3. Life(s)'
  BY Zenon, <1>0, <1>1, <1>2, FaultFacts DEF Life, IsRunning
<1>4. Calm => RecordedOf(s)'
  BY Zenon, <1>0, <1>1, <1>2, FaultFacts DEF RecordedOf, IsRunning
<1>5. Quiet /\ Undisturbed(s) /\ CodeOf(s) => CodeOf(s)'
  <2> SUFFICES ASSUME Quiet, Undisturbed(s), CodeOf(s) PROVE CodeOf(s)'
    BY Zenon
  <2>1. (\E i \in 1..Len(died'[s]) : died'[s][i] # "real") =>
            \E i \in 1..Len(died[s]) : died[s][i] # "real"
    BY Zenon, <1>2
  <2>2. IsRunning(s)' => IsRunning(s)
    BY Zenon, <1>2 DEF IsRunning
  <2>3. /\ /\ ExecSessions'[s] # Nil /\ ExecSessions'[s].State = "stopped"
           /\ ExecSessions'[s].ExitCode # "real"
           => Has("rm") /\ (client[s] = "done" \/ result[s] = "error")
        /\ Kind(s) # "health" /\ ExecSessions'[s] # Nil /\ ExecSessions'[s].State = "stopped" =>
              died'[s] # <<>>
    <3>1. CASE ExecSessions'[s] = ExecSessions[s] \/ ExecSessions'[s] = Nil
      BY Zenon, <1>2, <3>1 DEF CodeOf
    <3>2. CASE /\ ExecSessions'[s] # ExecSessions[s] /\ ExecSessions'[s].ExitCode = "real"
               /\ IsRunning(s)
      BY Zenon, <1>2, <3>2
    <3> QED
      BY Zenon, <1>2, <3>1, <3>2
  <2>4. /\ client[s] \in {"attached", "read", "write", "bundle", "report"}
        /\ ExecSessions'[s] = Nil /\ ~Has("stop")
        => IF Kind(s) = "health" THEN Has("rmexec") ELSE died'[s] # <<>>
    <3> SUFFICES ASSUME client[s] \in {"attached", "read", "write", "bundle", "report"},
                        ExecSessions'[s] = Nil, ~Has("stop")
                 PROVE  IF Kind(s) = "health" THEN Has("rmexec") ELSE died'[s] # <<>>
      BY Zenon
    <3>1. CASE ExecSessions[s] = Nil
      BY Zenon, <1>2, <3>1 DEF CodeOf
    <3>2. CASE ExecSessions[s] # Nil
      <4>1. ExecSessions[s].State \in {"created", "running", "stopped"}
        BY Zenon, <1>0, <3>2, StateOf
      <4>2. ExecSessions[s].State # "created"
        BY Zenon, <1>0, <1>2, <3>2 DEF Life
      <4>3. CASE ExecSessions[s].State = "running"
        BY Zenon, <1>2, <3>2, <4>3 DEF IsRunning
      <4>4. CASE ExecSessions[s].State = "stopped"
        BY Zenon, <1>2, <3>2, <4>4 DEF CodeOf
      <4> QED
        BY Zenon, <4>1, <4>2, <4>3, <4>4
    <3> QED
      BY Zenon, <3>1, <3>2
  <2> QED
    BY Zenon, <1>0, <1>1, <1>2, <2>1, <2>2, <2>3, <2>4, FaultFacts DEF CodeOf
<1>6. Managed'
  BY Zenon, <1>0, <1>1, <1>2, <1>3, ManagedKept DEF IsRunning, Life
<1> QED
  BY Zenon, <1>1, <1>2, <1>3, <1>4, <1>5, <1>6, OneSession DEF Life, IsRunning

\* The exit command of a session of the API.
LEMMA ExitCommandRemovesKeeps ==
    ASSUME ExecConfigured, IInv, ExecTypeOK', NEW s \in Sessions, ExitCommandRemoves(s)
    PROVE  Rest'
<1>1. PICK err \in BOOLEAN : ExecRemove(s, err)
  BY Zenon DEF ExitCommandRemoves
<1>2. /\ UNCHANGED <<sys, ctrState, files, client, exitCode, result, mgr>>
      /\ Kind(s) # "health" /\ process[s] # "none"
  BY Zenon DEF ExitCommandRemoves, ConmonEnds
<1>3. exitCmd'[s] = "done" /\ \A t \in Sessions \ {s} : exitCmd'[t] = exitCmd[t]
  BY Zenon DEF ExitCommandRemoves, IInv, ExecTypeOK
<1> QED
  BY Zenon, <1>1, <1>2, <1>3, ExecRemoveKeeps

\* The process of a session is killed and its code waited for: the bundle is there.
LEMMA StopSessionKeeps ==
    ASSUME ExecConfigured, IInv, ExecTypeOK', NEW s \in Sessions, mgr = NoCmd, IsRunning(s),
           NEW pc \in {"stop bundle", "remove bundle"}, StopSession(s, pc),
           Has(IF pc = "stop bundle" THEN "stopexec" ELSE "rmexec")
    PROVE  Rest'
<1>0. Life(s) /\ (Calm => RecordedOf(s)) /\ ExecTypeOK /\ Managed
  BY Zenon DEF IInv, Lives, Recorded
<1>1. process[s] # "none" /\ bundle[s] /\ mgr.pc = "idle"
  BY Zenon, <1>0, CommandFacts DEF Life, ExecTypeOK
<1>2. /\ mgr' = [pc |-> pc, todo |-> {}, cur |-> s] /\ justWriteExecExitCode(s, "real", TRUE)
      /\ UNCHANGED <<sys, ctrState, registry, bundle, client, exitCode, result, exitCmd>>
  BY Zenon, <1>1 DEF StopSession
<1>3. mgr'.pc = pc /\ mgr'.cur = s
  BY Zenon, <1>2, CommandFacts
<1>4. process'[s] = "dead" /\ \A t \in Sessions \ {s} : process'[t] = process[t]
  BY Zenon, <1>0 DEF StopSession, ExecTypeOK
<1>5. "real" \in Codes
  BY Zenon DEF Codes
<1>6. /\ ExecSessions[s] # Nil /\ ExecSessions'[s] # Nil /\ ExecSessions'[s].State = "stopped"
      /\ ExecSessions'[s].ExitCode = "real" /\ died'[s] # <<>>
      /\ \A i \in 1..Len(died'[s]) : died'[s][i] = "real" \/
            (i \in 1..Len(died[s]) /\ died'[s][i] = died[s][i])
  BY Zenon, <1>0, <1>2, <1>5, WriteFacts DEF IsRunning
<1>7. \A t \in Sessions \ {s} : Same(t)
  <2>1. \A t \in Sessions \ {s} : ExecSessions'[t] = ExecSessions[t] /\ died'[t] = died[t]
    BY Zenon, <1>0, <1>2, <1>5, WriteFacts
  <2> QED
    BY Zenon, <1>2, <1>4, <2>1 DEF Same
<1>8. ~IsRunning(s)'
  BY Zenon, <1>6 DEF IsRunning
<1>9. Managed'
  <2>1. \A f : Has(f)' = Has(f)
    BY Zenon, <1>2, FaultFacts
  <2>2. mgr'.cur # Nil /\ process'[mgr'.cur] = "dead" /\ ~IsRunning(mgr.cur)'
    <3>1. s # Nil
      BY Zenon DEF ExecConfigured
    <3> QED
      BY Zenon, <1>3, <1>4, <1>6, <3>1 DEF IsRunning
  <2>3. ctrState' # "running" => Has("stop")
    BY Zenon, <1>0, <1>2 DEF Managed
  <2> QED
    BY Zenon, <1>3, <2>1, <2>2, <2>3 DEF Managed, IsRunning
<1>10. Life(s)'
  BY Zenon, <1>0, <1>1, <1>2, <1>3, <1>4, <1>6, <1>8, FaultFacts DEF Life
<1>11. Calm => RecordedOf(s)'
  BY Zenon, <1>4, <1>8 DEF RecordedOf
<1>12. Quiet /\ Undisturbed(s) /\ CodeOf(s) => CodeOf(s)'
  <2> SUFFICES ASSUME Quiet, Undisturbed(s), CodeOf(s) PROVE CodeOf(s)'
    BY Zenon
  <2>1. (\E i \in 1..Len(died'[s]) : died'[s][i] # "real") =>
            \E i \in 1..Len(died[s]) : died[s][i] # "real"
    BY Zenon, <1>6
  <2> QED
    BY Zenon, <1>1, <1>2, <1>4, <1>6, <1>8, <2>1, FaultFacts DEF CodeOf
<1> QED
  BY Zenon, <1>1, <1>2, <1>3, <1>6, <1>7, <1>9, <1>10, <1>11, <1>12, OneSession

\* podman exec's stop and its forced removal, or its removal without force.
LEMMA ExecStopKeeps ==
    ASSUME ExecConfigured, IInv, ExecTypeOK', NEW s \in Sessions,
           ExecStop(s) \/ ExecRemoveHandler(s)
    PROVE  Rest'
<1>1. CASE ExecStop(s)
  BY Zenon, <1>1, StopSessionKeeps DEF ExecStop
<1>2. CASE Has("rmexec") /\ mgr = NoCmd /\ IsRunning(s) /\ StopSession(s, "remove bundle")
  BY Zenon, <1>2, StopSessionKeeps
<1>3. CASE /\ Has("rmexec") /\ \E err \in BOOLEAN : ExecRemove(s, err)
           /\ UNCHANGED <<sys, ctrState, files, client, exitCode, result, exitCmd, mgr>>
  <2>1. PICK err \in BOOLEAN : ExecRemove(s, err)
    BY Zenon, <1>3
  <2> QED
    BY Zenon, <1>3, <2>1, ExecRemoveKeeps
<1> QED
  BY Zenon, <1>1, <1>2, <1>3 DEF ExecRemoveHandler

---------------------------------------------------------------------------
\* A step that concerns several sessions, or the container.
LEMMA EachSession ==
    ASSUME ExecConfigured, IInv, ExecTypeOK', sys' = sys, Managed',
           Calm => (mgr'.pc = "rm" => ctrState' # "running"),
           \A t \in Sessions : Life(t)',
           ~Has("die") => \A t \in Sessions : t \in registry' <=> ExecSessions'[t] # Nil,
           Calm => \A t \in Sessions : RecordedOf(t)',
           Quiet => \A t \in Sessions : Undisturbed(t) /\ CodeOf(t) => CodeOf(t)'
    PROVE  Rest'
<1>1. Lives'
  BY Zenon DEF Lives
<1>2. RegistryAgrees'
  <2>1. registry' \subseteq Sessions
    BY Zenon DEF ExecTypeOK
  <2> QED
    BY Zenon, <2>1 DEF RegistryAgrees, Has
<1>3. Recorded'
  <2>1. Calm' = Calm
    BY Zenon DEF Calm, Has
  <2> QED
    BY Zenon, <2>1 DEF Recorded
<1>4. CodesReal'
  <2>1. Quiet' = Quiet /\ \A t : Undisturbed(t)' = Undisturbed(t)
    BY Zenon DEF Quiet, Undisturbed, Kind
  <2> QED
    BY Zenon, <2>1 DEF IInv, CodesReal
<1> QED
  BY Zenon, <1>1, <1>2, <1>3, <1>4 DEF Rest

\* The sessions of both lists, as RegistryAgrees has them.
LEMMA ListedTwice ==
    ASSUME IInv, ~Has("die")
    PROVE  \A t \in Sessions : t \in registry <=> ExecSessions[t] # Nil
  BY Zenon DEF IInv, RegistryAgrees

\* A step that only changes what mgr does next.
LEMMA NoSession ==
    ASSUME ExecConfigured, IInv, ExecTypeOK', sys' = sys, ctrState' = ctrState,
           mgr'.pc = "rm" <=> mgr.pc = "rm", Managed', \A t \in Sessions : Same(t)
    PROVE  Rest'
<1>1. \A t \in Sessions : Life(t)'
  BY Zenon, Unaffected DEF IInv, Lives
<1>2. Calm => (mgr'.pc = "rm" => ctrState' # "running") /\ \A t \in Sessions : RecordedOf(t)'
  BY Zenon, Unaffected DEF IInv, Recorded
<1>3. \A t \in Sessions : CodeOf(t) => CodeOf(t)'
  BY Zenon, Unaffected
<1>4. ~Has("die") => \A t \in Sessions : t \in registry' <=> ExecSessions'[t] # Nil
  BY Zenon, ListedTwice DEF Same
<1> QED
  BY Zenon, <1>1, <1>2, <1>3, <1>4, EachSession

\* Nothing happens.
LEMMA StutterKeeps ==
    ASSUME ExecConfigured, IInv, ExecTypeOK', UNCHANGED execVars
    PROVE  Rest'
<1>1. \A t \in Sessions : Same(t)
  BY Zenon DEF execVars, Same
<1>2. Managed'
  BY Zenon DEF execVars, IInv, Managed, Has, IsRunning
<1> QED
  BY Zenon, <1>1, <1>2, NoSession DEF execVars

\* cleanup, unmount or rm looks for the sessions that have ended.
LEMMA getActiveExecSessionsKeeps ==
    ASSUME ExecConfigured, IInv, ExecTypeOK', getActiveExecSessions
    PROVE  Rest'
<1>1. /\ Has("reap") /\ mgr = NoCmd
      /\ UNCHANGED <<sys, ctrState, db, files, client, exitCode, result, exitCmd>>
  BY Zenon DEF getActiveExecSessions
<1>2. PICK todo \in SUBSET Sessions : mgr' = [NoCmd EXCEPT !.pc = "reap", !.todo = todo]
  BY Zenon DEF getActiveExecSessions
<1>3. mgr'.pc = "reap" /\ mgr'.cur = Nil /\ mgr.pc = "idle"
  BY Zenon, <1>1, <1>2, CommandFacts
<1>4. \A t \in Sessions : Same(t)
  BY Zenon, <1>1 DEF Same, db, files
<1>5. Managed'
  <2>1. \A f : Has(f)' = Has(f)
    BY Zenon, <1>1, FaultFacts
  <2>2. ctrState' # "running" => Has("stop")
    BY Zenon, <1>1 DEF IInv, Managed
  <2> QED
    BY Zenon, <1>1, <1>3, <2>1, <2>2 DEF Managed
<1> QED
  BY Zenon, <1>1, <1>3, <1>4, <1>5, NoSession

\* rm begins to take the sessions of a stopped container away.
LEMMA removeAllExecSessionsKeeps ==
    ASSUME ExecConfigured, IInv, ExecTypeOK', removeAllExecSessions
    PROVE  Rest'
<1>0. ExecTypeOK /\ Lives /\ Managed /\ Recorded
  BY Zenon DEF IInv
<1>1. /\ Has("rm") /\ mgr = NoCmd /\ ctrState = "stopped"
      /\ UNCHANGED <<sys, ctrState, db, files, client, exitCode, result, exitCmd>>
  BY Zenon DEF removeAllExecSessions
<1>2. mgr'.pc = "rm" /\ mgr'.cur = Nil
  <2>1. {s \in Sessions : IsRunning(s)} \in SUBSET Sessions
    BY Zenon
  <2> QED
    BY Zenon, <2>1, CommandFacts DEF removeAllExecSessions
<1>3. \A t \in Sessions : Same(t)
  BY Zenon, <1>1 DEF Same, db, files
<1>4. \A f : Has(f)' = Has(f)
  BY Zenon, <1>1, FaultFacts
<1>5. Has("stop")
  BY Zenon, <1>0, <1>1 DEF Managed
<1>6. Managed'
  BY Zenon, <1>1, <1>2, <1>4, <1>5 DEF Managed
<1>7. \A t \in Sessions : IsRunning(t)' = IsRunning(t) /\ Kind(t)' = Kind(t)
  BY Zenon, <1>1, <1>3 DEF Same, IsRunning, Kind
<1>8. ASSUME NEW t \in Sessions PROVE Life(t)'
  <2>1. Life(t) /\ Same(t) /\ IsRunning(t)' = IsRunning(t) /\ Kind(t)' = Kind(t)
    BY Zenon, <1>0, <1>3, <1>7 DEF Lives
  <2> QED
    BY Zenon, <1>1, <1>2, <2>1 DEF Life, Same
<1>9. Calm => (mgr'.pc = "rm" => ctrState' # "running") /\ \A t \in Sessions : RecordedOf(t)'
  BY Zenon, <1>0, <1>1, <1>3, <1>7 DEF Recorded, RecordedOf, Same
<1>10. ASSUME NEW t \in Sessions, CodeOf(t) PROVE CodeOf(t)'
  <2>1. MayError(t)' = MayError(t) /\ Removal' = Removal
    BY Zenon, <1>1, FaultFacts
  <2> QED
    BY Zenon, <1>3, <1>4, <1>7, <1>10, <2>1 DEF CodeOf, Same
<1>11. ~Has("die") => \A t \in Sessions : t \in registry' <=> ExecSessions'[t] # Nil
  BY Zenon, <1>3, ListedTwice DEF Same
<1> QED
  BY Zenon, <1>1, <1>6, <1>8, <1>9, <1>10, <1>11, EachSession

\* ExecStop or a forced ExecRemove goes on when the bundle is gone.
LEMMA SessionStoppedKeeps ==
    ASSUME ExecConfigured, IInv, ExecTypeOK', SessionStopped
    PROVE  Rest'
<1>0. ExecTypeOK /\ Lives /\ Managed /\ Recorded /\ mgr.pc \in {"stop bundle", "remove bundle"}
  BY Zenon DEF IInv, SessionStopped
<1>1. PICK s \in Sessions : mgr.cur = s /\ process[s] = "dead" /\ ~IsRunning(s)
  <2>1. mgr.cur \in Sessions \cup {Nil}
    BY Zenon, <1>0, CommandFacts DEF ExecTypeOK
  <2> QED
    BY Zenon, <1>0, <2>1 DEF Managed
<1>2. /\ UNCHANGED <<sys, ctrState, died, process, client, exitCode, result, exitCmd>>
      /\ mgr' = NoCmd /\ bundle' = [bundle EXCEPT ![s] = FALSE]
      /\ \/ UNCHANGED <<ExecSessions, registry>>
         \/ /\ mgr.pc = "remove bundle" /\ s \in registry
            /\ ExecSessions' = [ExecSessions EXCEPT ![s] = Nil] /\ registry' = registry \ {s}
  BY Zenon, <1>1 DEF SessionStopped, cleanupExecBundle
<1>3. mgr'.pc = "idle" /\ mgr'.cur = Nil
  BY Zenon, <1>2, CommandFacts
<1>4. \A t \in Sessions \ {s} : Same(t)
  BY Zenon, <1>0, <1>1, <1>2 DEF Same, ExecTypeOK
<1>5. /\ bundle'[s] = FALSE
      /\ \/ ExecSessions'[s] = ExecSessions[s] /\ (s \in registry' <=> s \in registry)
         \/ /\ mgr.pc = "remove bundle"
            /\ ExecSessions'[s] = Nil /\ s \in registry /\ s \notin registry'
  BY Zenon, <1>0, <1>1, <1>2 DEF ExecTypeOK
<1>6. ~IsRunning(s)'
  BY Zenon, <1>1, <1>5 DEF IsRunning
<1>7. \A f : Has(f)' = Has(f)
  BY Zenon, <1>2, FaultFacts
<1>8. Managed'
  BY Zenon, <1>0, <1>2, <1>3, <1>7 DEF Managed
<1>9. Life(s)'
  <2>1. Life(s) /\ Kind(s)' = Kind(s)
    BY Zenon, <1>0, <1>2, FaultFacts DEF Lives
  <2> QED
    BY Zenon, <1>1, <1>2, <1>3, <1>5, <1>6, <2>1 DEF Life
<1>10. Calm => RecordedOf(s)'
  BY Zenon, <1>1, <1>2 DEF RecordedOf
<1>11. Quiet /\ Undisturbed(s) /\ CodeOf(s) => CodeOf(s)'
  <2> SUFFICES ASSUME Quiet, Undisturbed(s), CodeOf(s) PROVE CodeOf(s)'
    BY Zenon
  <2>1. Kind(s) # "http"
    BY Zenon, <1>0, FaultFacts DEF Managed
  <2>2. /\ client[s] \in {"attached", "read", "write", "bundle", "report"}
        /\ ExecSessions'[s] = Nil /\ ~Has("stop")
        => IF Kind(s) = "health" THEN Has("rmexec") ELSE died[s] # <<>>
    <3>1. CASE ExecSessions'[s] = ExecSessions[s]
      BY Zenon, <3>1 DEF CodeOf
    <3>2. CASE mgr.pc = "remove bundle" /\ ExecSessions[s] # Nil
      <4>1. ExecSessions[s].State \in {"created", "running", "stopped"}
        BY Zenon, <1>0, <3>2, StateOf
      <4>2. client[s] # "done" => ExecSessions[s].State = "stopped"
        BY Zenon, <1>0, <1>1, <3>2, <4>1 DEF Lives, Life, IsRunning
      <4> QED
        BY Zenon, <1>0, <3>2, <4>2 DEF CodeOf, Managed
    <3> QED
      BY Zenon, <1>5, <3>1, <3>2
  <2> QED
    BY Zenon, <1>2, <1>5, <1>6, <2>1, <2>2, FaultFacts DEF CodeOf
<1> QED
  BY Zenon, <1>0, <1>1, <1>2, <1>3, <1>4, <1>5, <1>8, <1>9, <1>10, <1>11, OneSession

\* The reaper takes a bundle away and records the next session that has ended.  That
\* session still has its bundle, so that the code is read, however late.
LEMMA ReapNextKeeps ==
    ASSUME ExecConfigured, IInv, ExecTypeOK', ReapNext
    PROVE  Rest'
<1>0. ExecTypeOK /\ Lives /\ Managed /\ Recorded /\ mgr.pc = "reap" /\ Has("reap")
  BY Zenon DEF IInv, ReapNext, Managed
<1>1. /\ UNCHANGED <<sys, ctrState, registry, process, client, exitCode, result, exitCmd>>
      /\ \A t \in Sessions : bundle'[t] = bundle[t] \/ (bundle'[t] = FALSE /\ mgr.cur = t)
  BY Zenon, <1>0 DEF ReapNext, cleanupExecBundle, ExecTypeOK
<1>2. \A t \in Sessions : mgr.cur = t => process[t] = "dead" /\ ~IsRunning(t)
  BY Zenon, <1>0 DEF Managed, ExecConfigured
<1>3. ASSUME NEW t \in Sessions, ExecSessions'[t] = ExecSessions[t], died'[t] = died[t],
             mgr'.pc # "rm"
      PROVE  Life(t)' /\ (Calm => RecordedOf(t)')
             /\ (Quiet /\ Undisturbed(t) /\ CodeOf(t) => CodeOf(t)')
             /\ (t \in registry' <=> t \in registry) /\ (IsRunning(t)' <=> IsRunning(t))
  <2>1. CASE bundle'[t] = bundle[t]
    <3>1. Same(t)
      BY Zenon, <1>1, <1>3, <2>1 DEF Same
    <3>2. Life(t) /\ (Calm => RecordedOf(t))
      BY Zenon, <1>0 DEF Lives, Recorded
    <3> QED
      BY Zenon, <1>0, <1>1, <1>3, <3>1, <3>2, Unaffected DEF Same
  <2>2. CASE bundle'[t] = FALSE /\ mgr.cur = t
    <3>1. Life(t) /\ (Calm => RecordedOf(t)) /\ Kind(t)' = Kind(t)
      BY Zenon, <1>0, <1>1, FaultFacts DEF Lives, Recorded
    <3>2. ~IsRunning(t) /\ ~IsRunning(t)' /\ process[t] = "dead"
      BY Zenon, <1>2, <1>3, <2>2 DEF IsRunning
    <3>3. Life(t)'
      BY Zenon, <1>1, <1>3, <2>2, <3>1, <3>2 DEF Life
    <3>4. Calm => RecordedOf(t)'
      BY Zenon, <1>1, <3>1, <3>2 DEF RecordedOf
    <3>5. Quiet /\ Undisturbed(t) /\ CodeOf(t) => CodeOf(t)'
      <4> SUFFICES ASSUME Quiet, Undisturbed(t), CodeOf(t) PROVE CodeOf(t)'
        BY Zenon
      <4>1. Kind(t) # "http"
        BY Zenon, <1>0, FaultFacts
      <4> QED
        BY Zenon, <1>1, <1>3, <3>2, <4>1, FaultFacts DEF CodeOf
    <3> QED
      BY Zenon, <1>1, <3>2, <3>3, <3>4, <3>5
  <2> QED
    BY Zenon, <1>1, <2>1, <2>2
<1>4. \A f : Has(f)' = Has(f)
  BY Zenon, <1>1, FaultFacts
<1>5. ctrState' # "running" => Has("stop")
  BY Zenon, <1>0, <1>1 DEF Managed
<1>6. CASE mgr' = NoCmd /\ UNCHANGED <<ExecSessions, died>>
  <2>1. mgr'.pc = "idle" /\ mgr'.cur = Nil
    BY Zenon, <1>6, CommandFacts
  <2>2. Managed'
    BY Zenon, <1>4, <1>5, <2>1 DEF Managed
  <2>3. ~Has("die") => \A t \in Sessions : t \in registry' <=> ExecSessions'[t] # Nil
    BY Zenon, <1>1, <1>6, ListedTwice
  <2> QED
    BY Zenon, <1>1, <1>3, <1>6, <2>1, <2>2, <2>3, EachSession
<1>7. ASSUME NEW s \in Sessions, IsRunning(s), process[s] = "dead", ReadReturns(s),
             justWriteExecExitCode(s, IF exitFile[s] THEN "real" ELSE "minus one", TRUE),
             mgr' = [mgr EXCEPT !.todo = @ \ {s}, !.cur = s]
      PROVE  Rest'
  <2> DEFINE code == IF exitFile[s] THEN "real" ELSE "minus one"
  <2>1. code \in Codes
    BY Zenon DEF Codes
  <2>2. mgr'.pc = "reap" /\ mgr'.cur = s
    <3>1. mgr \in Commands
      BY Zenon, <1>0 DEF ExecTypeOK
    <3>2. /\ [mgr EXCEPT !.todo = @ \ {s}, !.cur = s].pc = mgr.pc
          /\ [mgr EXCEPT !.todo = @ \ {s}, !.cur = s].cur = s
      BY Zenon, <3>1 DEF Commands
    <3> QED
      BY Zenon, <1>0, <1>7, <3>2
  <2>3. bundle[s] /\ bundle'[s] = bundle[s]
    BY Zenon, <1>0, <1>1, <1>2, <1>7 DEF Lives, Life, ExecTypeOK
  <2>4. Quiet => code = "real"
    BY Zenon, <1>7, <2>3, FaultFacts DEF ReadReturns, ReadFails
  <2>5. /\ ExecSessions[s] # Nil /\ ExecSessions'[s] # Nil /\ ExecSessions'[s].State = "stopped"
        /\ ExecSessions'[s].ExitCode = code /\ died'[s] # <<>>
        /\ \A i \in 1..Len(died'[s]) : died'[s][i] = code \/
              (i \in 1..Len(died[s]) /\ died'[s][i] = died[s][i])
        /\ \A t \in Sessions \ {s} : ExecSessions'[t] = ExecSessions[t] /\ died'[t] = died[t]
    BY Zenon, <1>0, <1>7, <2>1, WriteFacts DEF IsRunning
  <2> HIDE DEF code
  <2>6. ~IsRunning(s)'
    BY Zenon, <2>5 DEF IsRunning
  <2>7. Managed'
    <3>1. mgr'.cur # Nil /\ process'[mgr'.cur] = "dead" /\ ~IsRunning(mgr.cur)'
      BY Zenon, <1>1, <1>7, <2>2, <2>5 DEF ExecConfigured, IsRunning
    <3> QED
      BY Zenon, <1>0, <1>4, <1>5, <2>2, <3>1 DEF Managed
  <2>8. Life(s)'
    <3>1. Life(s) /\ Kind(s)' = Kind(s)
      BY Zenon, <1>0, <1>1, FaultFacts DEF Lives
    <3> QED
      BY Zenon, <1>1, <1>7, <2>5, <2>6, <3>1 DEF Life
  <2>9. Calm => RecordedOf(s)'
    BY Zenon, <1>1, <1>7 DEF RecordedOf
  <2>10. Quiet /\ Undisturbed(s) /\ CodeOf(s) => CodeOf(s)'
    <3> SUFFICES ASSUME Quiet, Undisturbed(s), CodeOf(s) PROVE CodeOf(s)'
      BY Zenon
    <3>1. (\E i \in 1..Len(died'[s]) : died'[s][i] # "real") =>
              \E i \in 1..Len(died[s]) : died[s][i] # "real"
      BY Zenon, <2>4, <2>5
    <3>2. Kind(s) # "http"
      BY Zenon, <1>0, FaultFacts
    <3> QED
      BY Zenon, <1>1, <1>7, <2>4, <2>5, <2>6, <3>1, <3>2, FaultFacts DEF CodeOf
  <2>11. ~Has("die") => \A t \in Sessions : t \in registry' <=> ExecSessions'[t] # Nil
    BY Zenon, <1>1, <2>5, ListedTwice
  <2>12. \A t \in Sessions : /\ Life(t)' /\ (Calm => RecordedOf(t)')
                             /\ Quiet /\ Undisturbed(t) /\ CodeOf(t) => CodeOf(t)'
    BY Zenon, <1>3, <2>2, <2>5, <2>8, <2>9, <2>10
  <2> QED
    BY Zenon, <1>1, <2>2, <2>7, <2>11, <2>12, EachSession
<1>8. \/ mgr' = NoCmd /\ UNCHANGED <<ExecSessions, died>>
      \/ \E s \in Sessions :
            /\ IsRunning(s) /\ process[s] = "dead" /\ ReadReturns(s)
            /\ justWriteExecExitCode(s, IF exitFile[s] THEN "real" ELSE "minus one", TRUE)
            /\ mgr' = [mgr EXCEPT !.todo = @ \ {s}, !.cur = s]
  <2>1. mgr.todo \subseteq Sessions
    BY Zenon, <1>0, CommandFacts DEF ExecTypeOK
  <2> QED
    BY Zenon, <2>1 DEF ReapNext
<1> QED
  BY Zenon, <1>6, <1>7, <1>8

\* The container stops: its processes end with it.
LEMMA ContainerStopsKeeps ==
    ASSUME ExecConfigured, IInv, ExecTypeOK', ContainerStops
    PROVE  Rest'
<1>0. ExecTypeOK /\ Lives /\ Managed /\ Recorded
  BY Zenon DEF IInv
<1>1. /\ UNCHANGED <<sys, ExecSessions, registry, died, bundle, client, exitCode, result>>
      /\ UNCHANGED <<exitCmd, mgr>> /\ Has("stop") /\ ctrState' = "stopped"
      /\ \A t \in Sessions : process'[t] = IF process[t] = "alive" THEN "dead" ELSE process[t]
  BY Zenon DEF ContainerStops, db
<1>2. \A f : Has(f)' = Has(f)
  BY Zenon, <1>1, FaultFacts
<1>3. \A t \in Sessions : IsRunning(t)' = IsRunning(t) /\ Kind(t)' = Kind(t)
  BY Zenon, <1>1 DEF IsRunning, Kind
<1>4. Managed'
  <2>1. mgr.cur \in Sessions \cup {Nil}
    BY Zenon, <1>0, CommandFacts DEF ExecTypeOK
  <2>2. mgr.cur # Nil => process'[mgr.cur] = "dead" /\ ~IsRunning(mgr.cur)'
    BY Zenon, <1>0, <1>1, <2>1 DEF Managed, IsRunning
  <2> QED
    BY Zenon, <1>0, <1>1, <1>2, <2>2 DEF Managed
<1>5. ASSUME NEW t \in Sessions PROVE Life(t)'
  <2>1. Life(t)
    BY Zenon, <1>0 DEF Lives
  <2> QED
    BY Zenon, <1>0, <1>1, <1>3, <2>1 DEF Life, ExecTypeOK
<1>6. Calm => \A t \in Sessions : RecordedOf(t)'
  BY Zenon, <1>1 DEF RecordedOf
<1>7. ASSUME NEW t \in Sessions, CodeOf(t) PROVE CodeOf(t)'
  <2>1. MayError(t)' = MayError(t) /\ Removal' = Removal
    BY Zenon, <1>1, FaultFacts
  <2> QED
    BY Zenon, <1>1, <1>2, <1>3, <1>7, <2>1 DEF CodeOf
<1>8. ~Has("die") => \A t \in Sessions : t \in registry' <=> ExecSessions'[t] # Nil
  BY Zenon, <1>1, ListedTwice
<1> QED
  BY Zenon, <1>1, <1>4, <1>5, <1>6, <1>7, <1>8, EachSession

\* The container is started again: its sessions are forgotten.
LEMMA ContainerInitKeeps ==
    ASSUME ExecConfigured, IInv, ExecTypeOK', ContainerInit
    PROVE  Rest'
<1>0. ExecTypeOK /\ Lives /\ Managed /\ Recorded
  BY Zenon DEF IInv
<1>1. /\ UNCHANGED <<sys, died, process, bundle, client, exitCode, result, exitCmd, mgr>>
      /\ Has("restart") /\ ctrState = "stopped" /\ ctrState' = "running" /\ registry' = {}
      /\ \A t \in Sessions : ExecSessions'[t] = Nil
  BY Zenon DEF ContainerInit, files
<1>2. Has("stop")
  BY Zenon, <1>0, <1>1 DEF Managed
<1>3. \A f : Has(f)' = Has(f)
  BY Zenon, <1>1, FaultFacts
<1>4. \A t \in Sessions : ~IsRunning(t)' /\ Kind(t)' = Kind(t)
  BY Zenon, <1>1 DEF IsRunning, Kind
<1>5. Managed'
  <2>1. mgr.cur \in Sessions \cup {Nil}
    BY Zenon, <1>0, CommandFacts DEF ExecTypeOK
  <2>2. mgr.cur # Nil => process'[mgr.cur] = "dead" /\ ~IsRunning(mgr.cur)'
    BY Zenon, <1>0, <1>1, <2>1 DEF Managed, IsRunning
  <2> QED
    BY Zenon, <1>0, <1>1, <1>3, <2>2 DEF Managed
<1>6. ASSUME NEW t \in Sessions PROVE Life(t)'
  <2>1. Life(t)
    BY Zenon, <1>0 DEF Lives
  <2> QED
    BY Zenon, <1>1, <1>4, <2>1 DEF Life
<1>7. Calm => mgr.pc # "rm" /\ \A t \in Sessions : RecordedOf(t)'
  BY Zenon, <1>0, <1>1, <1>4, FaultFacts DEF Recorded, RecordedOf, Managed
<1>8. ASSUME NEW t \in Sessions, CodeOf(t) PROVE CodeOf(t)'
  <2>1. MayError(t)' = MayError(t) /\ Removal' = Removal
    BY Zenon, <1>1, FaultFacts
  <2> QED
    BY Zenon, <1>1, <1>2, <1>3, <1>4, <1>8, <2>1 DEF CodeOf
<1> QED
  BY Zenon, <1>1, <1>5, <1>6, <1>7, <1>8, EachSession

\* rm takes one more bundle away, or is done with the container.
LEMMA RemoveNextKeeps ==
    ASSUME ExecConfigured, IInv, ExecTypeOK', RemoveNext
    PROVE  Rest'
<1>0. ExecTypeOK /\ Lives /\ Managed /\ Recorded /\ mgr.pc = "rm" /\ Has("rm") /\ Has("stop")
  BY Zenon DEF IInv, RemoveNext, Managed
<1>1. UNCHANGED <<sys, died, process, client, exitCode, result, exitCmd>>
  BY Zenon DEF RemoveNext
<1>2. /\ \A f : Has(f)' = Has(f)
      /\ \A t : Kind(t)' = Kind(t) /\ MayError(t)' = MayError(t) /\ Removal' = Removal
      /\ Removal
  BY Zenon, <1>0, <1>1, FaultFacts
<1>3. ASSUME NEW s \in Sessions, cleanupExecBundle(s), mgr' = [mgr EXCEPT !.todo = @ \ {s}],
             UNCHANGED <<ctrState, ExecSessions, registry>>
      PROVE  Rest'
  <2>1. mgr'.pc = "rm" /\ mgr'.cur = mgr.cur
    <3>1. mgr \in Commands
      BY Zenon, <1>0 DEF ExecTypeOK
    <3>2. /\ [mgr EXCEPT !.todo = @ \ {s}].pc = mgr.pc
          /\ [mgr EXCEPT !.todo = @ \ {s}].cur = mgr.cur
      BY Zenon, <3>1 DEF Commands
    <3> QED
      BY Zenon, <1>0, <1>3, <3>2
  <2>2. bundle'[s] = FALSE /\ \A t \in Sessions \ {s} : Same(t)
    BY Zenon, <1>0, <1>1, <1>3 DEF cleanupExecBundle, Same, ExecTypeOK
  <2>3. IsRunning(s)' = IsRunning(s) /\ IsRunning(mgr.cur)' = (ExecSessions[mgr.cur] # Nil
            /\ ExecSessions[mgr.cur].State = "running")
    BY Zenon, <1>3, <2>1 DEF IsRunning
  <2>4. Managed'
    BY Zenon, <1>0, <1>1, <1>2, <1>3, <2>1, <2>3 DEF Managed, IsRunning
  <2>5. Life(s)'
    <3>1. Life(s)
      BY Zenon, <1>0 DEF Lives
    <3> QED
      BY Zenon, <1>1, <1>2, <1>3, <2>1, <2>3, <3>1 DEF Life
  <2>6. Calm => RecordedOf(s)'
    <3>1. Calm => RecordedOf(s)
      BY Zenon, <1>0 DEF Recorded
    <3> QED
      BY Zenon, <1>1, <1>3, <2>3, <3>1 DEF RecordedOf
  <2>7. CodeOf(s) => CodeOf(s)'
    BY Zenon, <1>1, <1>2, <1>3, <2>3 DEF CodeOf
  <2> QED
    BY Zenon, <1>0, <1>1, <1>3, <2>1, <2>2, <2>4, <2>5, <2>6, <2>7, OneSession
<1>4. CASE /\ ctrState' = "gone" /\ registry' = {} /\ mgr' = NoCmd
           /\ ExecSessions' = [s \in Sessions |-> Nil]
  <2>1. mgr'.pc = "idle" /\ mgr'.cur = Nil
    BY Zenon, <1>4, CommandFacts
  <2>2. \A t \in Sessions : ExecSessions'[t] = Nil /\ ~IsRunning(t)'
    BY Zenon, <1>4 DEF IsRunning
  <2>3. Managed'
    BY Zenon, <1>0, <1>2, <2>1 DEF Managed
  <2>4. ASSUME NEW t \in Sessions PROVE Life(t)'
    <3>1. Life(t)
      BY Zenon, <1>0 DEF Lives
    <3> QED
      BY Zenon, <1>1, <1>2, <1>4, <2>2, <3>1 DEF Life
  <2>5. Calm => \A t \in Sessions : RecordedOf(t)'
    BY Zenon, <1>0, <1>1, <2>2 DEF Recorded, RecordedOf
  <2>6. ASSUME NEW t \in Sessions, CodeOf(t) PROVE CodeOf(t)'
    BY Zenon, <1>0, <1>1, <1>2, <2>2, <2>6 DEF CodeOf
  <2> QED
    BY Zenon, <1>1, <1>4, <2>1, <2>2, <2>3, <2>4, <2>5, <2>6, EachSession
<1>5. mgr.todo \subseteq Sessions
  BY Zenon, <1>0, CommandFacts DEF ExecTypeOK
<1> QED
  BY Zenon, <1>3, <1>4, <1>5 DEF RemoveNext

---------------------------------------------------------------------------
\* Every system starts in the invariant.
LEMMA InitIInv ==
    ASSUME ExecConfigured, ExecInit
    PROVE  IInv
<1>1. NoCmd \in Commands /\ NoCmd.pc = "idle" /\ NoCmd.cur = Nil
  BY Zenon, CommandFacts
<1>2. ExecTypeOK
  <2>1. died \in [Sessions -> Seq(Codes)] /\ client \in [Sessions -> Steps]
    BY DEF ExecInit, Steps
  <2> QED
    BY Zenon, <1>1, <2>1 DEF ExecInit, ExecTypeOK
<1>3. Lives
  BY Zenon DEF ExecInit, Lives, Life, IsRunning
<1>4. Managed
  BY Zenon, <1>1 DEF ExecInit, Managed
<1>5. RegistryAgrees
  BY Zenon DEF ExecInit, RegistryAgrees
<1>6. Recorded
  BY Zenon, <1>1 DEF ExecInit, Recorded, RecordedOf
<1>7. CodesReal
  BY DEF ExecInit, CodesReal, CodeOf, IsRunning
<1> QED
  BY Zenon, <1>2, <1>3, <1>4, <1>5, <1>6, <1>7 DEF IInv

\* Every step keeps it, whichever sessions, clients and commands it is a step of.
LEMMA StepIInv ==
    ASSUME ExecConfigured, IInv, [ExecNext]_execVars
    PROVE  IInv'
<1>1. ExecTypeOK'
  BY Zenon, TypeStep DEF IInv
<1>2. ASSUME NEW s \in Sessions, Client(s) PROVE Rest'
  BY Zenon, <1>1, <1>2, ExecCreateKeeps, StartSessionKeeps, AttachEndsKeeps, readExecExitCodeKeeps,
     WriteExitCodeKeeps, ClientCleansBundleKeeps, ReportExitCodeKeeps, ClientRemovesKeeps
  DEF Client
<1>3. ASSUME NEW s \in Sessions, ExitCommand(s) PROVE Rest'
  BY Zenon, <1>1, <1>3, ExecCleanupKeeps, ExitCommandCleansBundleKeeps, ExitCommandRemovesKeeps
  DEF ExitCommand
<1>4. ASSUME NEW s \in Sessions, ClientDies(s) \/ ProcessExits(s) \/ ConmonWrites(s) PROVE Rest'
  BY Zenon, <1>1, <1>4, ClientDiesKeeps, ProcessExitsKeeps, ConmonWritesKeeps
<1>5. ASSUME NEW s \in Sessions, ExecResize(s) \/ ExecStop(s) \/ ExecRemoveHandler(s) PROVE Rest'
  BY Zenon, <1>1, <1>5, ExecResizeKeeps, ExecStopKeeps
<1>6. ASSUME Command PROVE Rest'
  BY Zenon, <1>1, <1>6, SessionStoppedKeeps, ReapNextKeeps, RemoveNextKeeps DEF Command
<1>7. ASSUME \/ getActiveExecSessions \/ ContainerStops \/ ContainerInit
             \/ removeAllExecSessions \/ UNCHANGED execVars
      PROVE  Rest'
  BY Zenon, <1>1, <1>7, getActiveExecSessionsKeeps, ContainerStopsKeeps, ContainerInitKeeps,
     removeAllExecSessionsKeeps, StutterKeeps
<1>8. Rest'
  BY Zenon, <1>2, <1>3, <1>4, <1>5, <1>6, <1>7 DEF ExecNext
<1> QED
  BY Zenon, <1>1, <1>8 DEF IInv, Rest

\* The invariant holds in every state a client, an exit command, a health check, the
\* API or a command on the container can bring about.
THEOREM Inductive == ExecSpec => []IInv
<1> USE ExecAssumption
<1>1. ExecInit => IInv
  BY Zenon, InitIInv
<1>2. IInv /\ [ExecNext]_execVars => IInv'
  BY Zenon, StepIInv
<1> QED
  BY <1>1, <1>2, PTL DEF ExecSpec

\* Whoever comes first, the client, the exit command, a reaper or a command that
\* stops the session: what is recorded and what podman exec returns is the code the
\* process exited with (execStartAndAttach, ExecCleanup, getActiveExecSessions).
THEOREM CodeIsReal == ExecSpec => []ExecCode
<1> USE ExecAssumption
<1>1. IInv => ExecCode
  <2> SUFFICES ASSUME IInv, Quiet, NEW s \in Sessions, Undisturbed(s)
               PROVE  /\ client[s] = "done" /\ process[s] # "none" =>
                            result[s] \in {Nil, "real"} \cup (IF MayError(s) THEN {"error"} ELSE {})
                      /\ ~Has("rm") =>
                            /\ ExecSessions[s] # Nil /\ ExecSessions[s].State = "stopped" =>
                                  ExecSessions[s].ExitCode = "real"
                            /\ \A i \in 1..Len(died[s]) : died[s][i] = "real"
    BY Zenon DEF ExecCode, Quiet, Undisturbed
  <2>1. CodeOf(s)
    BY Zenon DEF IInv, CodesReal
  <2> QED
    BY Zenon, <2>1 DEF CodeOf
<1> QED
  BY <1>1, Inductive, PTL

\* The session list of the container and the registry of all sessions agree in every
\* state, unless a client is killed between its two writes (ExecCreate).
THEOREM ListsAgree == ExecSpec => []RegistryAgrees
<1> USE ExecAssumption
<1>1. IInv => RegistryAgrees
  BY Zenon DEF IInv
<1> QED
  BY <1>1, Inductive, PTL

\* rm, cleanup and unmount see every process that runs in the container
\* (getActiveExecSessions, removeAllExecSessions).
THEOREM ProcessesAreSeen == ExecSpec => []ProcessIsRecorded
<1> USE ExecAssumption
<1>1. IInv => ProcessIsRecorded
  BY Zenon DEF IInv, Recorded, RecordedOf, Calm, ProcessIsRecorded
<1> QED
  BY <1>1, Inductive, PTL
=============================================================================
