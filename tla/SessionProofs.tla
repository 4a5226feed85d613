--------------------------- MODULE SessionProofs ---------------------------
(***************************************************************************)
(* Proofs about Session, for every set of processes and every number of    *)
(* sessions: between commands a session is whole or gone, or the half of    *)
(* one that a failed attach leaves for good; and its queue is its own.     *)
(***************************************************************************)
EXTENDS Session, TLAPS

----------------------------------------------------------------------------
(* The inductive invariant                                                 *)

\* Main is inside ops_detach exactly during the three commands that call it,
\* and a death server once it has seen the process's end.
MainInv ==
    /\ main \in {"detach", "kill", "quit"} <=> det[MAIN] # "off"
    /\ main \in {"attach_name", "attach"} => session < MaxSessions
    /\ sigkill = "quiet" => main \in {"kill", "killing"}
    /\ \A n \in Sessions : ds[n] = "detach" <=> det[n] # "off"
    /\ \A n \in Sessions : n > session => ds[n] = "none"

\* The exception port is that of the last session, whose server then neither
\* leaves nor has left; a queue was made by a server that has started.
QueueInv ==
    /\ exc_port \in {Null, session}
    /\ \A n \in Sessions :
        /\ exc_port = n => es[n] \in {"start", "receive", "gather"}
        /\ queue = n \/ n \in freed => es[n] \notin {"none", "start"}

\* As long as the threads do not race: main is alone while it is in a
\* command ...
Alone == main # "prompt" => \A n \in Sessions : det[n] = "off"

Clean == ~lists /\ ~notify /\ task = Null /\ exc_port = Null

\* ... what there is of a session goes with how far the teardown is ...
Parts ==
    /\ pid = Null => Clean
    /\ main \in {"attach_name", "attach", "attach_ptrace"} => pid # Null
    /\ failed => pid # Null /\ \A c \in Callers : det[c] \in {"off", "clear"}
    /\ pid # Null =>
        /\ (\E c \in Callers : det[c] \in {"ports", "ptrace", "drop"}) => lists
        /\ (\E c \in Callers : det[c] \in {"ptrace", "drop"}) =>
                ~notify /\ task = Null /\ exc_port = Null
        /\ (\A c \in Callers : det[c] \notin {"ptrace", "drop"}) =>
                /\ task = pid
                /\ \/ main \notin {"attach_name", "attach"} /\ ~failed /\ lists /\ notify /\ exc_port = session
                   \/ main = "attach" /\ ~failed /\ lists /\ notify /\ exc_port = Null
                   \/ /\ failed <=> main # "attach_name"
                      /\ main \notin {"attach", "attach_ptrace"}
                      /\ ~lists /\ ~notify /\ exc_port = Null

\* ... and of the exception servers only the session's own one is running.
OneServer ==
    main \in {"attach_name", "attach"} \/ exc_port # Null =>
        \A n \in Sessions : n # exc_port => es[n] \in {"none", "done"}

\* The queue of the session's server, once it has started.
OwnQueue ==
    \A n \in Sessions : exc_port = n /\ es[n] # "start" => queue = n /\ n \notin freed

Calm == Running /\ ~raced => Alone /\ Parts /\ OneServer /\ OwnQueue

IInv == TypeOK /\ MainInv /\ QueueInv /\ Calm

----------------------------------------------------------------------------

\* queue_free: the freed queues are queues, and iosdbg is up or is not.
LEMMA FreeType ==
    ASSUME TypeOK, Free(queue)
    PROVE  freed' \subseteq Sessions /\ up' \in BOOLEAN
<1>1. /\ up' = up \/ up' = FALSE
      /\ freed' = freed \/ (queue # Null /\ freed' = freed \cup {queue})
  <2>1. CASE queue = Null
    <3>1. <<freed, up>>' = <<freed, up>>
      BY <2>1, Zenon DEF Free
    <3> QED
      BY <3>1, Zenon
  <2>2. CASE queue # Null /\ queue \in freed
    BY <2>2, Zenon DEF Free, Crash
  <2>3. CASE queue # Null /\ queue \notin freed
    BY <2>3, Zenon DEF Free
  <2> QED
    BY <2>1, <2>2, <2>3
<1>3. up' \in BOOLEAN
    BY <1>1, Zenon DEF TypeOK
<1>4. queue # Null => queue \in Sessions
    BY SessionAssumption DEF TypeOK, Sessions, Null
<1> QED
    BY <1>1, <1>3, <1>4 DEF TypeOK

\* A death server tears a session down, or it does not, and it is there.
LEMMA DeathServers ==
    ASSUME MainInv, NEW n \in Sessions
    PROVE  /\ ds[n] = "detach" => det[n] # "off"
           /\ ds[n] # "detach" => det[n] = "off"
           /\ ds[n] # "none" => ~(n > session)
BY DEF MainInv

\* Every step keeps the types.
LEMMA TypeStep ==
    ASSUME TypeOK, MainInv, Running, [Next]_vars
    PROVE  TypeOK'
<1> USE ProcAssumption, SessionAssumption DEF TypeOK, MainInv, Sessions, Callers, MAIN, Null, ports, servers, procs
<1>1. ASSUME NEW p \in Procs, attach(p)
      PROVE  TypeOK'
    BY <1>1 DEF attach, Target, Races
<1>2. ASSUME attach_name_fails
      PROVE  TypeOK'
    BY <1>2 DEF attach_name_fails
<1>22. ASSUME attach_lists
      PROVE  TypeOK'
    BY <1>22 DEF attach_lists
<1>3. ASSUME setup_servers
      PROVE  TypeOK'
    BY <1>3 DEF setup_servers
<1>4. ASSUME attach_ptrace
      PROVE  TypeOK'
    BY <1>4 DEF attach_ptrace
<1>5. ASSUME NEW c \in Callers, detach_clear(c)
      PROVE  TypeOK'
    BY <1>5 DEF detach_clear, At, Go, Crash
<1>6. ASSUME NEW c \in Callers, detach_ports(c)
      PROVE  TypeOK'
  <2>1. /\ det' \in [Callers -> {"off", "clear", "ports", "ptrace", "drop"}]
        /\ notify' \in BOOLEAN /\ task' = Null /\ exc_port' = Null
    BY <1>6 DEF detach_ports, At, Go
  <2> QED
    BY <1>6, <2>1 DEF detach_ports
<1>7. ASSUME NEW c \in Callers, detach_ptrace(c)
      PROVE  TypeOK'
    BY <1>7 DEF detach_ptrace, At, Go
<1>8. ASSUME NEW c \in Callers, detach_drop(c)
      PROVE  TypeOK'
  <2>1. freed' \subseteq Sessions /\ up' \in BOOLEAN
    <3>1. CASE lists
      BY <1>8, <3>1, FreeType DEF detach_drop
    <3>2. CASE ~lists
      <4>1. up' = FALSE /\ freed' = freed
        BY <1>8, <3>2 DEF detach_drop, Crash
      <4> QED
        BY <4>1
    <3> QED
      BY <3>1, <3>2
  <2>2. det' \in [Callers -> {"off", "clear", "ports", "ptrace", "drop"}]
    BY <1>8 DEF detach_drop, Go
  <2>3. main' \in {"prompt", "attach_name", "attach", "attach_ptrace", "detach", "kill", "killing", "quit", "gone"}
    BY <1>8 DEF detach_drop, At
  <2>4. ds' \in [Sessions -> {"none", "kevent", "waitpid", "detach", "done"}]
    BY <1>8 DEF detach_drop
  <2>5. nosigs' = FALSE /\ lists' = FALSE /\ traced' = FALSE /\ queue' = Null /\ pid' = Null
    BY <1>8 DEF detach_drop
  <2>7. UNCHANGED <<session, task, exc_port, dead, sigkill, es, tm, watched>>
    BY <1>8 DEF detach_drop
  <2>6. {notify', lists', nosigs', traced', raced', failed', up'} \subseteq BOOLEAN
    BY <1>8, <2>1, <2>5 DEF detach_drop
  <2> QED
    BY <2>1, <2>2, <2>3, <2>4, <2>5, <2>6, <2>7
<1>9. ASSUME cmdfunc_detach
      PROVE  TypeOK'
    BY <1>9 DEF cmdfunc_detach, Go, Races
<1>10. ASSUME cmdfunc_kill
       PROVE  TypeOK'
    BY <1>10 DEF cmdfunc_kill, Go, Races
<1>11. ASSUME NEW p \in Procs, kill_victim(p)
       PROVE  TypeOK'
    BY <1>11 DEF kill_victim
<1>12. ASSUME cmdfunc_quit
       PROVE  TypeOK'
    BY <1>12 DEF cmdfunc_quit, Go, Races
<1>13. ASSUME NEW n \in Sessions, es_start(n)
       PROVE  TypeOK'
    BY <1>13 DEF es_start, ExceptionStep, LoopTest
<1>14. ASSUME NEW n \in Sessions, es_receive(n)
       PROVE  TypeOK'
    BY <1>14 DEF es_receive, ExceptionStep, LoopTest
<1>15. ASSUME NEW n \in Sessions, es_gathered(n)
       PROVE  TypeOK'
    BY <1>15 DEF es_gathered, ExceptionStep
<1>16. ASSUME NEW n \in Sessions, es_leave(n)
       PROVE  TypeOK'
  <2>1. freed' \subseteq Sessions /\ up' \in BOOLEAN
    BY <1>16, FreeType DEF es_leave
  <2>2. /\ es' \in [Sessions -> {"none", "start", "receive", "gather", "leave", "done"}]
        /\ \A m \in Sessions : es'[m] = "none" <=> m > session
    BY <1>16 DEF es_leave, ExceptionStep
  <2> QED
    BY <1>16, <2>1, <2>2 DEF es_leave
<1>17. ASSUME NEW n \in Sessions, ThreadMonitor(n)
       PROVE  TypeOK'
    BY <1>17 DEF ThreadMonitor
<1>18. ASSUME NEW n \in Sessions, ds_event(n)
       PROVE  TypeOK'
    BY <1>18 DEF ds_event
<1>19. ASSUME NEW n \in Sessions, ds_waited(n)
       PROVE  TypeOK'
    BY <1>19 DEF ds_waited, Go, Races
<1>20. ASSUME NEW p \in Procs, exit(p)
       PROVE  TypeOK'
    BY <1>20 DEF exit, Known
<1>21. CASE UNCHANGED vars
    BY <1>21 DEF vars
<1> QED
    BY <1>1, <1>2, <1>3, <1>4, <1>5, <1>6, <1>7, <1>8, <1>9, <1>10, <1>11, <1>12, <1>13, <1>14, <1>15, <1>16, <1>17, <1>18, <1>19, <1>20, <1>21, <1>22 DEF Next, Commands, MainGoesOn, OpsDetach, ExceptionServer, DeathServer

\* Every step keeps MainInv.
LEMMA MainStep ==
    ASSUME TypeOK, MainInv, Running, [Next]_vars
    PROVE  MainInv'
<1> USE ProcAssumption, SessionAssumption DEF TypeOK, MainInv, Sessions, Callers, MAIN, Null, ports, servers, procs
<1>1. ASSUME NEW p \in Procs, attach(p)
      PROVE  MainInv'
    BY <1>1 DEF attach, Target, Races
<1>2. ASSUME attach_name_fails
      PROVE  MainInv'
    BY <1>2 DEF attach_name_fails
<1>22. ASSUME attach_lists
      PROVE  MainInv'
    BY <1>22 DEF attach_lists
<1>3. ASSUME setup_servers
      PROVE  MainInv'
    BY <1>3 DEF setup_servers
<1>4. ASSUME attach_ptrace
      PROVE  MainInv'
    BY <1>4 DEF attach_ptrace
<1>5. ASSUME NEW c \in Callers, detach_clear(c)
      PROVE  MainInv'
    BY <1>5 DEF detach_clear, At, Go, Crash
<1>6. ASSUME NEW c \in Callers, detach_ports(c)
      PROVE  MainInv'
    BY <1>6 DEF detach_ports, At, Go
<1>7. ASSUME NEW c \in Callers, detach_ptrace(c)
      PROVE  MainInv'
    BY <1>7 DEF detach_ptrace, At, Go
<1>8. ASSUME NEW c \in Callers, detach_drop(c)
      PROVE  MainInv'
  <2>1. /\ det' = [det EXCEPT ![c] = "off"] /\ det[c] = "drop"
        /\ UNCHANGED <<session, sigkill>>
    BY <1>8 DEF detach_drop, At, Go
  <2>2. CASE c = MAIN
    <3>1. main \in {"detach", "kill", "quit"}
      BY <2>1, <2>2
    <3>2. /\ \/ main = "detach" /\ main' = "prompt"
             \/ main = "kill" /\ main' = "killing"
             \/ main = "quit" /\ main' = "gone"
          /\ ds' = ds
      BY <1>8, <2>2, <3>1 DEF detach_drop
    <3> QED
      BY <2>1, <2>2, <3>2
  <2>3. CASE c # MAIN
    <3>1. main' = main /\ ds' = [ds EXCEPT ![c] = "done"]
      BY <1>8, <2>3 DEF detach_drop
    <3>2. c \in Sessions /\ ds[c] = "detach" /\ ~(c > session)
      BY <2>1, <2>3, DeathServers
    <3>3. ASSUME NEW m \in Sessions
          PROVE  (ds'[m] = "detach" <=> det'[m] # "off") /\ (m > session => ds'[m] = "none")
      BY <2>1, <3>1, <3>2, DeathServers
    <3>4. det'[MAIN] = det[MAIN]
      BY <2>1, <2>3
    <3> QED
      BY <2>1, <3>1, <3>3, <3>4
  <2> QED
    BY <2>2, <2>3
<1>9. ASSUME cmdfunc_detach
      PROVE  MainInv'
    BY <1>9 DEF cmdfunc_detach, Go, Races
<1>10. ASSUME cmdfunc_kill
       PROVE  MainInv'
    BY <1>10 DEF cmdfunc_kill, Go, Races
<1>11. ASSUME NEW p \in Procs, kill_victim(p)
       PROVE  MainInv'
    BY <1>11 DEF kill_victim
<1>12. ASSUME cmdfunc_quit
       PROVE  MainInv'
  <2>1. CASE pid = Null
    BY <1>12, <2>1 DEF cmdfunc_quit
  <2>2. CASE pid # Null
    BY <1>12, <2>2 DEF cmdfunc_quit, Go
  <2> QED
    BY <2>1, <2>2
<1>13. ASSUME NEW n \in Sessions, es_start(n)
       PROVE  MainInv'
    BY <1>13 DEF es_start, ExceptionStep, LoopTest
<1>14. ASSUME NEW n \in Sessions, es_receive(n)
       PROVE  MainInv'
    BY <1>14 DEF es_receive, ExceptionStep, LoopTest
<1>15. ASSUME NEW n \in Sessions, es_gathered(n)
       PROVE  MainInv'
    BY <1>15 DEF es_gathered, ExceptionStep
<1>16. ASSUME NEW n \in Sessions, es_leave(n)
       PROVE  MainInv'
    BY <1>16 DEF es_leave, ExceptionStep, Free, Crash
<1>17. ASSUME NEW n \in Sessions, ThreadMonitor(n)
       PROVE  MainInv'
    BY <1>17 DEF ThreadMonitor
<1>18. ASSUME NEW n \in Sessions, ds_event(n)
       PROVE  MainInv'
    BY <1>18 DEF ds_event
<1>19. ASSUME NEW n \in Sessions, ds_waited(n)
       PROVE  MainInv'
  <2>1. /\ UNCHANGED <<main, session, sigkill>>
        /\ ds' = [ds EXCEPT ![n] = "detach"] /\ det' = [det EXCEPT ![n] = "clear"]
        /\ ds[n] = "waitpid"
    BY <1>19 DEF ds_waited, Go
  <2>2. ASSUME NEW m \in Sessions
        PROVE  (ds'[m] = "detach" <=> det'[m] # "off") /\ (m > session => ds'[m] = "none")
    BY <2>1, DeathServers
  <2>3. det'[MAIN] = det[MAIN]
    BY <2>1
  <2> QED
    BY <2>1, <2>2, <2>3
<1>20. ASSUME NEW p \in Procs, exit(p)
       PROVE  MainInv'
    BY <1>20 DEF exit, Known
<1>21. CASE UNCHANGED vars
    BY <1>21 DEF vars
<1> QED
    BY <1>1, <1>2, <1>3, <1>4, <1>5, <1>6, <1>7, <1>8, <1>9, <1>10, <1>11, <1>12, <1>13, <1>14, <1>15, <1>16, <1>17, <1>18, <1>19, <1>20, <1>21, <1>22 DEF Next, Commands, MainGoesOn, OpsDetach, ExceptionServer, DeathServer

\* Every step keeps QueueInv.
LEMMA QueueStep ==
    ASSUME TypeOK, MainInv, QueueInv, Running, [Next]_vars
    PROVE  QueueInv'
<1> USE ProcAssumption, SessionAssumption DEF TypeOK, MainInv, QueueInv, Sessions, Callers, MAIN, Null, ports, servers, procs
<1>1. ASSUME NEW p \in Procs, attach(p)
      PROVE  QueueInv'
    BY <1>1 DEF attach, Target, Races
<1>2. ASSUME attach_name_fails
      PROVE  QueueInv'
    BY <1>2 DEF attach_name_fails
<1>22. ASSUME attach_lists
      PROVE  QueueInv'
    BY <1>22 DEF attach_lists
<1>3. ASSUME setup_servers
      PROVE  QueueInv'
    BY <1>3 DEF setup_servers
<1>4. ASSUME attach_ptrace
      PROVE  QueueInv'
    BY <1>4 DEF attach_ptrace
<1>5. ASSUME NEW c \in Callers, detach_clear(c)
      PROVE  QueueInv'
    BY <1>5 DEF detach_clear, At, Go, Crash
<1>6. ASSUME NEW c \in Callers, detach_ports(c)
      PROVE  QueueInv'
    BY <1>6 DEF detach_ports, At, Go
<1>7. ASSUME NEW c \in Callers, detach_ptrace(c)
      PROVE  QueueInv'
    BY <1>7 DEF detach_ptrace, At, Go
<1>8. ASSUME NEW c \in Callers, detach_drop(c)
      PROVE  QueueInv'
    BY <1>8 DEF detach_drop, At, Go, Crash, Free
<1>9. ASSUME cmdfunc_detach
      PROVE  QueueInv'
    BY <1>9 DEF cmdfunc_detach, Go, Races
<1>10. ASSUME cmdfunc_kill
       PROVE  QueueInv'
    BY <1>10 DEF cmdfunc_kill, Go, Races
<1>11. ASSUME NEW p \in Procs, kill_victim(p)
       PROVE  QueueInv'
    BY <1>11 DEF kill_victim
<1>12. ASSUME cmdfunc_quit
       PROVE  QueueInv'
    BY <1>12 DEF cmdfunc_quit, Go, Races
<1>13. ASSUME NEW n \in Sessions, es_start(n)
       PROVE  QueueInv'
    BY <1>13 DEF es_start, ExceptionStep, LoopTest
<1>14. ASSUME NEW n \in Sessions, es_receive(n)
       PROVE  QueueInv'
    BY <1>14 DEF es_receive, ExceptionStep, LoopTest
<1>15. ASSUME NEW n \in Sessions, es_gathered(n)
       PROVE  QueueInv'
    BY <1>15 DEF es_gathered, ExceptionStep
<1>16. ASSUME NEW n \in Sessions, es_leave(n)
       PROVE  QueueInv'
    BY <1>16 DEF es_leave, ExceptionStep, Free, Crash
<1>17. ASSUME NEW n \in Sessions, ThreadMonitor(n)
       PROVE  QueueInv'
    BY <1>17 DEF ThreadMonitor
<1>18. ASSUME NEW n \in Sessions, ds_event(n)
       PROVE  QueueInv'
    BY <1>18 DEF ds_event
<1>19. ASSUME NEW n \in Sessions, ds_waited(n)
       PROVE  QueueInv'
    BY <1>19 DEF ds_waited, Go, Races
<1>20. ASSUME NEW p \in Procs, exit(p)
       PROVE  QueueInv'
    BY <1>20 DEF exit, Known
<1>21. CASE UNCHANGED vars
    BY <1>21 DEF vars
<1> QED
    BY <1>1, <1>2, <1>3, <1>4, <1>5, <1>6, <1>7, <1>8, <1>9, <1>10, <1>11, <1>12, <1>13, <1>14, <1>15, <1>16, <1>17, <1>18, <1>19, <1>20, <1>21, <1>22 DEF Next, Commands, MainGoesOn, OpsDetach, ExceptionServer, DeathServer

\* Every step keeps Calm.
LEMMA CalmStep ==
    ASSUME IInv, Running, [Next]_vars
    PROVE  Calm'
<1> USE ProcAssumption, SessionAssumption DEF IInv, TypeOK, MainInv, QueueInv, Calm, Alone, Clean, Parts, OneServer, OwnQueue, Running, Sessions, Callers, MAIN, Null, ports, servers, procs
<1>1. ASSUME NEW p \in Procs, attach(p)
      PROVE  Calm'
  <2>1. CASE ~raced' /\ Running'
    <3>1. Alone'
      BY <1>1, <2>1 DEF attach, Target, Races
    <3>2. Parts'
      <4>1. /\ UNCHANGED <<session, exc_port, notify, lists, det, failed>>
            /\ pid = Null /\ pid' = p /\ task' = p /\ main' = "attach_name"
        BY <1>1 DEF attach
      <4>2. Parts /\ \A c \in Callers : det[c] = "off"
        BY <1>1, <2>1 DEF attach, Races
      <4> QED
        BY <4>1, <4>2
    <3>3. OneServer'
      <4>1. ASSUME NEW n \in Sessions
            PROVE  es[n] \in {"none", "done"}
        <5>1. {es[n], tm[n]} \cap {"none", "done"} = {es[n], tm[n]}
          BY <1>1, <2>1, Zenon DEF attach, Races
        <5> QED
          BY <5>1, Zenon
      <4>2. es' = es
        BY <1>1 DEF attach
      <4> QED
        BY <4>1, <4>2, Zenon
    <3>4. OwnQueue'
      BY <1>1, <2>1 DEF attach, Target, Races
    <3> QED
      BY <3>1, <3>2, <3>3, <3>4
  <2> QED
    BY <2>1
<1>2. ASSUME attach_name_fails
      PROVE  Calm'
    BY <1>2 DEF attach_name_fails
<1>22. ASSUME attach_lists
      PROVE  Calm'
    BY <1>22 DEF attach_lists
<1>3. ASSUME setup_servers
      PROVE  Calm'
    BY <1>3 DEF setup_servers
<1>4. ASSUME attach_ptrace
      PROVE  Calm'
    BY <1>4 DEF attach_ptrace
<1>5. ASSUME NEW c \in Callers, detach_clear(c)
      PROVE  Calm'
    BY <1>5 DEF detach_clear, At, Go, Crash
<1>6. ASSUME NEW c \in Callers, detach_ports(c)
      PROVE  Calm'
    BY <1>6 DEF detach_ports, At, Go
<1>7. ASSUME NEW c \in Callers, detach_ptrace(c)
      PROVE  Calm'
    BY <1>7 DEF detach_ptrace, At, Go
<1>8. ASSUME NEW c \in Callers, detach_drop(c)
      PROVE  Calm'
    BY <1>8 DEF detach_drop, At, Go, Crash, Free
<1>9. ASSUME cmdfunc_detach
      PROVE  Calm'
    BY <1>9 DEF cmdfunc_detach, Go, Races
<1>10. ASSUME cmdfunc_kill
       PROVE  Calm'
    BY <1>10 DEF cmdfunc_kill, Go, Races
<1>11. ASSUME NEW p \in Procs, kill_victim(p)
       PROVE  Calm'
    BY <1>11 DEF kill_victim
<1>12. ASSUME cmdfunc_quit
       PROVE  Calm'
  <2>1. CASE ~raced' /\ Running'
    <3>1. Alone'
      BY <1>12, <2>1 DEF cmdfunc_quit, Go, Races
    <3>2. Parts'
      <4>1. pid # Null /\ Parts /\ Alone
        BY <1>12, <2>1 DEF cmdfunc_quit, Races
      <4>2. /\ UNCHANGED <<session, pid, task, exc_port, notify, lists, failed>>
            /\ main = "prompt" /\ main' = "quit" /\ det' = [det EXCEPT ![MAIN] = "clear"]
        BY <1>12, <4>1 DEF cmdfunc_quit, Go
      <4>3. \A c \in Callers : det[c] = "off"
        BY <1>12, <2>1 DEF cmdfunc_quit, Races
      <4> QED
        BY <4>1, <4>2, <4>3
    <3>3. OneServer'
      BY <1>12, <2>1 DEF cmdfunc_quit, Go, Races
    <3>4. OwnQueue'
      BY <1>12, <2>1 DEF cmdfunc_quit, Go, Races
    <3> QED
      BY <3>1, <3>2, <3>3, <3>4
  <2> QED
    BY <2>1
<1>13. ASSUME NEW n \in Sessions, es_start(n)
       PROVE  Calm'
    BY <1>13 DEF es_start, ExceptionStep, LoopTest
<1>14. ASSUME NEW n \in Sessions, es_receive(n)
       PROVE  Calm'
    BY <1>14 DEF es_receive, ExceptionStep, LoopTest
<1>15. ASSUME NEW n \in Sessions, es_gathered(n)
       PROVE  Calm'
    BY <1>15 DEF es_gathered, ExceptionStep
<1>16. ASSUME NEW n \in Sessions, es_leave(n)
       PROVE  Calm'
    BY <1>16 DEF es_leave, ExceptionStep, Free, Crash
<1>17. ASSUME NEW n \in Sessions, ThreadMonitor(n)
       PROVE  Calm'
    BY <1>17 DEF ThreadMonitor
<1>18. ASSUME NEW n \in Sessions, ds_event(n)
       PROVE  Calm'
    BY <1>18 DEF ds_event
<1>19. ASSUME NEW n \in Sessions, ds_waited(n)
       PROVE  Calm'
  <2>1. CASE ~raced' /\ Running'
    <3>1. Alone'
      BY <1>19, <2>1 DEF ds_waited, Go, Races
    <3>2. Parts'
      <4>1. main = "prompt" /\ ~raced /\ Running
        BY <1>19, <2>1 DEF ds_waited, Races
      <4>2. /\ UNCHANGED <<main, session, pid, task, exc_port, notify, lists, failed>>
            /\ det' = [det EXCEPT ![n] = "clear"]
        BY <1>19 DEF ds_waited, Go
      <4>3. Parts
        BY <4>1
      <4>6. det[n] = "off"
        BY <1>19, DeathServers DEF ds_waited
      <4>4. \A c \in Callers : det'[c] = IF c = n THEN "clear" ELSE det[c]
        BY <4>2
      <4>5. \A c \in Callers :
                /\ det[c] \in {"off", "clear"} => det'[c] \in {"off", "clear"}
                /\ det'[c] \in {"ptrace", "drop"} <=> det[c] \in {"ptrace", "drop"}
                /\ det'[c] \in {"ports", "ptrace", "drop"} <=> det[c] \in {"ports", "ptrace", "drop"}
        BY <4>4, <4>6
      <4> QED
        BY <4>2, <4>3, <4>5
    <3>3. OneServer'
      BY <1>19, <2>1 DEF ds_waited, Go, Races
    <3>4. OwnQueue'
      BY <1>19, <2>1 DEF ds_waited, Go, Races
    <3> QED
      BY <3>1, <3>2, <3>3, <3>4
  <2> QED
    BY <2>1
<1>20. ASSUME NEW p \in Procs, exit(p)
       PROVE  Calm'
    BY <1>20 DEF exit, Known
<1>21. CASE UNCHANGED vars
    BY <1>21 DEF vars
<1> QED
    BY <1>1, <1>2, <1>3, <1>4, <1>5, <1>6, <1>7, <1>8, <1>9, <1>10, <1>11, <1>12, <1>13, <1>14, <1>15, <1>16, <1>17, <1>18, <1>19, <1>20, <1>21, <1>22 DEF Next, Commands, MainGoesOn, OpsDetach, ExceptionServer, DeathServer

----------------------------------------------------------------------------

\* Nothing is attached and nothing raced at the start.
LEMMA InitHolds == Init => IInv
<1> SUFFICES ASSUME Init
             PROVE  IInv
    OBVIOUS
<1> USE ProcAssumption, SessionAssumption DEF Sessions, Callers, MAIN, Null, Init
<1>1. TypeOK
  <2>1. \A n \in Sessions : es[n] = "none" <=> n > session
    OBVIOUS
  <2>2. {notify, lists, nosigs, traced, raced, failed, up} \subseteq BOOLEAN
    OBVIOUS
  <2> QED
    BY <2>1, <2>2 DEF TypeOK
<1>2. MainInv /\ QueueInv
    BY DEF MainInv, QueueInv
<1>3. Calm
    BY DEF Calm, Alone, Clean, Parts, OneServer, OwnQueue
<1> QED
    BY <1>1, <1>2, <1>3 DEF IInv

\* Every step of every thread keeps the invariant.
LEMMA StepHolds == IInv /\ [Next]_vars => IInv'
<1> SUFFICES ASSUME IInv, [Next]_vars
             PROVE  IInv'
    OBVIOUS
<1>1. CASE Next
  <2>1. Running
    BY <1>1 DEF Next
  <2> QED
    BY <2>1, TypeStep, MainStep, QueueStep, CalmStep DEF IInv
<1>2. CASE UNCHANGED vars
    BY <1>2 DEF vars, IInv, TypeOK, MainInv, QueueInv, Calm, Alone, Clean, Parts, OneServer, OwnQueue,
                Running
<1> QED
    BY <1>1, <1>2

\* The invariant holds of the specification.
LEMMA Invariant == Spec => []IInv
<1>1. Init => IInv
    BY InitHolds
<1>2. IInv /\ [Next]_vars => IInv'
    BY StepHolds
<1> QED
    BY <1>1, <1>2, PTL DEF Spec

\* cmdfunc_attach, ops_detach and cmdfunc_kill: whichever thread tore the last
\* session down, between commands a session is there with all of its parts or
\* not at all; only an attach that failed at misccmd.c:161 leaves half of one,
\* which then stays for as long as iosdbg runs; and SIGKILL is handled as
\* the user set it.
THEOREM SessionIsWhole == Spec => []SessionOK
<1>1. IInv => SessionOK
  <2> SUFFICES ASSUME IInv
               PROVE  SessionOK
    OBVIOUS
  <2>1. DetachedIsClean
    BY DEF IInv, Calm, Parts, Clean, DetachedIsClean, AtRest
  <2>2. AttachedIsWhole
    BY DEF IInv, Calm, Parts, AttachedIsWhole, AtRest
  <2>3. KillRestoresSettings
    BY DEF IInv, TypeOK, MainInv, KillRestoresSettings
  <2>4. FailedAttachStays
    BY DEF IInv, Calm, Alone, Parts, FailedAttachStays
  <2> QED
    BY <2>1, <2>2, <2>3, <2>4 DEF IInv, SessionOK
<1> QED
    BY <1>1, Invariant, PTL

\* servers.c:128: the exception server of a session works with the queue it
\* made, which no server of an earlier session frees or replaces, as long as
\* the threads did not race.
THEOREM QueueIsOwn == Spec => []QueueOfSession
<1>1. IInv => QueueOfSession
    BY DEF IInv, Calm, OwnQueue, QueueOfSession
<1> QED
    BY <1>1, Invariant, PTL
=============================================================================
