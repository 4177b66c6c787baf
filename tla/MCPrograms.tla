---------------------------- MODULE MCPrograms -----------------------------
(***************************************************************************)
(* One run for the small programs: the initial state chooses which one is  *)
(* executed, and the variables of the others keep their initial values.    *)
(***************************************************************************)
EXTENDS BatchTask, BoundedBuffer, ForkServer, Daemon, Pipes, Datagrams, EchoServer,
        Singleton, SmartPointers, MemoryPool, WeatherStation, JoinedThreads

Repertoire ==
    Forking \cup {"deamon"} \cup Piping \cup UdpPrograms \cup {"sock"}
        \cup Eager \cup {"LazySingleton", "shared_ptr", "unique_ptr", "memory_pool1",
                         "observer", "pthread_condition", "pthread_condition1", "pthread_create",
                         "producerAndConsumer1"}
        \cup Joining

ProgramsInit ==
    /\ program \in Repertoire
    /\ Init /\ BufferInit /\ ForkInit /\ DaemonInit /\ PipeInit /\ DatagramInit /\ EchoInit
    /\ SingletonInit /\ PointerInit /\ PoolInit /\ StationInit /\ ThreadInit

\* What the threads, the first and the second five of the others change.
threadingVars == <<batchVars, bufferVars>>
systemVars == <<forkVars, daemonVars, pipeVars, datagramVars, echoVars>>
sampleVars == <<singletonVars, pointerVars, poolVars, stationVars, threadVars>>

ProgramsNext ==
    /\ UNCHANGED program
    /\ \/ /\ UNCHANGED <<systemVars, sampleVars>>
          /\ \/ Next /\ UNCHANGED bufferVars
             \/ BufferNext /\ UNCHANGED batchVars
       \/ /\ UNCHANGED <<threadingVars, sampleVars>>
          /\ \/ ForkNext /\ UNCHANGED <<daemonVars, pipeVars, datagramVars, echoVars>>
             \/ DaemonNext /\ UNCHANGED <<forkVars, pipeVars, datagramVars, echoVars>>
             \/ PipeNext /\ UNCHANGED <<forkVars, daemonVars, datagramVars, echoVars>>
             \/ DatagramNext /\ UNCHANGED <<forkVars, daemonVars, pipeVars, echoVars>>
             \/ EchoNext /\ UNCHANGED <<forkVars, daemonVars, pipeVars, datagramVars>>
       \/ /\ UNCHANGED <<threadingVars, systemVars>>
          /\ \/ SingletonNext /\ UNCHANGED <<pointerVars, poolVars, stationVars, threadVars>>
             \/ PointerNext /\ UNCHANGED <<singletonVars, poolVars, stationVars, threadVars>>
             \/ PoolNext /\ UNCHANGED <<singletonVars, pointerVars, stationVars, threadVars>>
             \/ StationNext /\ UNCHANGED <<singletonVars, pointerVars, poolVars, threadVars>>
             \/ ThreadNext /\ UNCHANGED <<singletonVars, pointerVars, poolVars, stationVars>>

allVars == <<program, threadingVars, systemVars, sampleVars>>

\* The kernel runs every process and thread that can go on, and delivers its signals;
\* users, clients, kills and spurious wake-ups need not come.
ProgramsFairness ==
    /\ WF_allVars(Batching /\ Task1 /\ UNCHANGED <<program, bufferVars, systemVars, sampleVars>>)
    /\ WF_allVars(Batching /\ Task2 /\ UNCHANGED <<program, bufferVars, systemVars, sampleVars>>)
    /\ LET Buffers(A) ==
               /\ program = "producerAndConsumer1" /\ A
               /\ UNCHANGED <<program, batchVars, systemVars, sampleVars>>
       IN \A t \in Tid : WF_allVars(Buffers(BufferStep(t)))
    /\ LET Forks(A) == program \in Forking /\ A
               /\ UNCHANGED <<program, threadingVars, daemonVars, pipeVars, datagramVars,
                              echoVars, sampleVars>>
       IN /\ WF_allVars(Forks(Serve)) /\ WF_allVars(Forks(Handler))
          /\ \A k \in Client : WF_allVars(Forks(HandleClient(k)))
    /\ LET Pipes_(A) == program \in Piping /\ A
               /\ UNCHANGED <<program, threadingVars, forkVars, daemonVars, datagramVars,
                              echoVars, sampleVars>>
       IN WF_allVars(Pipes_(Reads)) /\ WF_allVars(Pipes_(Writes))

ProgramsSpec == ProgramsInit /\ [][ProgramsNext]_allVars /\ ProgramsFairness

\* The state of every program is well typed.
ProgramsTyped ==
    /\ program \in Repertoire
    /\ TypeOK /\ BufferTypeOK /\ ForkTypeOK /\ DaemonTypeOK /\ PipeTypeOK /\ DatagramTypeOK
    /\ EchoTypeOK
    /\ SingletonTypeOK /\ PointerTypeOK /\ PoolTypeOK /\ StationTypeOK /\ ThreadTypeOK
===========================================================================
