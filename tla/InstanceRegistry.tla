--------------------------- MODULE InstanceRegistry ---------------------------
(***************************************************************************)
(* The descriptor files through which connectors are found: one for each   *)
(* host process, written when its ConnectorServer starts and on idle ticks *)
(* of the application, deleted when it is disposed, left behind when it    *)
(* crashes.  Any other process may read them at any time.                  *)
(*                                                                         *)
(* A host names its process and with it the instance id, the process id    *)
(* and the token, which no two processes share.  All steps of a host are   *)
(* on its UI thread.  X_Fault operators are faulty variants of X that no   *)
(* action uses.                                                            *)
(***************************************************************************)
EXTENDS Integers, FiniteSets

CONSTANTS
    Hosts,       \* Revit and AutoCAD processes
    Documents,   \* the documents users open
    NoDocument,  \* none is active
    Ports,       \* the loopback ports a server tries
    NoPort,      \* it listens nowhere
    NoFile,      \* no descriptor
    MaxAttempts  \* attempts of one Write: 5 in the code

ASSUME AttemptsAssumption == MaxAttempts \in Nat \ {0}
ASSUME NothingAssumption == NoDocument \notin Documents /\ NoPort \notin Ports

VARIABLES
    host,      \* where each process is in its life
    document,  \* GetCachedInfo().Document
    port,      \* the port of its HttpListener
    file,      \* its descriptor file
    lastJson,  \* InstanceRegistry._lastJson
    writing,   \* the json of the Write that is under way
    attempt    \* its attempts that failed

registryVars == <<host, document, port, file, lastJson, writing, attempt>>

Descriptors ==
    [host : Hosts, document : Documents \cup {NoDocument}, port : Ports]

RegistryTypeOK ==
    /\ host \in [Hosts -> {"new", "starting", "up", "gone"}]
    /\ document \in [Hosts -> Documents \cup {NoDocument}]
    /\ port \in [Hosts -> Ports \cup {NoPort}]
    /\ \A h \in Hosts : host[h] \in {"starting", "up"} <=> port[h] # NoPort
    /\ \A f \in {file, lastJson, writing} : f \in [Hosts -> Descriptors \cup {NoFile}]
    /\ attempt \in [Hosts -> 0 .. MaxAttempts - 1]

RegistryInit ==
    /\ host = [h \in Hosts |-> "new"]
    /\ document = [h \in Hosts |-> NoDocument]
    /\ port = [h \in Hosts |-> NoPort]
    /\ file = [h \in Hosts |-> NoFile]
    /\ lastJson = [h \in Hosts |-> NoFile]
    /\ writing = [h \in Hosts |-> NoFile]
    /\ attempt = [h \in Hosts |-> 0]

Descriptor(h) == [host |-> h, document |-> document[h], port |-> port[h]]

Listening(h, p) == port[h] = p
Idle(h) == host[h] = "up" /\ writing[h] = NoFile

\* Start binds the first port it can get, whoever had it before, and begins
\* to write the descriptor; no document is known yet.
Start(h, p) ==
    /\ host[h] = "new"
    /\ ~\E g \in Hosts : Listening(g, p)
    /\ host' = [host EXCEPT ![h] = "starting"]
    /\ port' = [port EXCEPT ![h] = p]
    /\ writing' = [writing EXCEPT ![h] = [host |-> h, document |-> NoDocument, port |-> p]]
    /\ UNCHANGED <<document, file, lastJson, attempt>>

\* Write returns at once when the file has what it wrote last.
UpToDate_IgnoresFile(h) == lastJson[h] = Descriptor(h)
UpToDate(h) == lastJson[h] = Descriptor(h) /\ file[h] # NoFile

\* RefreshDescriptor on an idle tick.
Refresh(h) ==
    /\ Idle(h)
    /\ ~UpToDate(h)
    /\ writing' = [writing EXCEPT ![h] = Descriptor(h)]
    /\ UNCHANGED <<host, document, port, file, lastJson, attempt>>

WriteEnds(h) ==
    /\ writing' = [writing EXCEPT ![h] = NoFile]
    /\ attempt' = [attempt EXCEPT ![h] = 0]

\* File.Replace or File.Move: readers see the old content or the new one.
Replace(h) ==
    /\ writing[h] # NoFile
    /\ WriteEnds(h)
    /\ file' = [file EXCEPT ![h] = writing[h]]
    /\ lastJson' = [lastJson EXCEPT ![h] = writing[h]]
    /\ host' = [host EXCEPT ![h] = "up"]
    /\ UNCHANGED <<document, port>>

\* Replace fails while a reader has the file open.  Windows may also fail it
\* after the old file lost its name; the new one is deleted in either case.
StaysOrLost(h) == file' \in {file, [file EXCEPT ![h] = NoFile]}

ReplaceRetried(h) ==
    /\ writing[h] # NoFile
    /\ attempt[h] < MaxAttempts - 1
    /\ attempt' = [attempt EXCEPT ![h] = @ + 1]
    /\ StaysOrLost(h)
    /\ UNCHANGED <<host, document, port, lastJson, writing>>

\* The process is gone and its memory with it.
Gone(h) ==
    /\ host' = [host EXCEPT ![h] = "gone"]
    /\ port' = [port EXCEPT ![h] = NoPort]
    /\ document' = [document EXCEPT ![h] = NoDocument]
    /\ lastJson' = [lastJson EXCEPT ![h] = NoFile]

Disposed_KeepsListening(h) ==
    /\ host' = [host EXCEPT ![h] = "gone"]
    /\ StaysOrLost(h)
    /\ UNCHANGED <<port, document, lastJson>>

\* Dispose closes the listener and deletes the file, if nobody has it open.
Disposed(h) == Gone(h) /\ StaysOrLost(h)

Remembered_Written(h) == [lastJson EXCEPT ![h] = writing[h]]
Remembered(h) == lastJson

\* The last attempt failed, or the temporary file could not be written or the
\* target was denied.  RefreshDescriptor drops the exception, Start disposes.
WriteFails(h) ==
    /\ writing[h] # NoFile
    /\ WriteEnds(h)
    /\ IF host[h] = "starting"
       THEN Disposed(h)
       ELSE /\ StaysOrLost(h)
            /\ lastJson' = Remembered(h)
            /\ UNCHANGED <<host, port, document>>

\* The user opens, closes or activates a document; RefreshCachedInfo.
DocumentChanges(h, d) ==
    /\ Idle(h)
    /\ d # document[h]
    /\ document' = [document EXCEPT ![h] = d]
    /\ UNCHANGED <<host, port, file, lastJson, writing, attempt>>

Stop(h) ==
    /\ Idle(h)
    /\ Disposed(h)
    /\ UNCHANGED <<writing, attempt>>

\* The file stays; a temporary file that stays too has another extension.
Crash(h) ==
    /\ host[h] \in {"starting", "up"}
    /\ Gone(h)
    /\ WriteEnds(h)
    /\ UNCHANGED file

\* The application keeps coming back to its idle state, and nobody keeps a
\* descriptor open for ever.
RegistryFairness ==
    \A h \in Hosts : WF_registryVars(Refresh(h)) /\ SF_registryVars(Replace(h))

\* "RefreshDescriptor will retry on the next application idle": whatever
\* fails, once the active document stays, the descriptor comes to name it.
DescriptorCatchesUp ==
    \A h \in Hosts :
        <>[][document'[h] = document[h]]_registryVars
            => []<>(host[h] # "up" \/ file[h] = Descriptor(h))
=============================================================================
