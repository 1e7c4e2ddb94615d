----------------------------- MODULE FileManager -----------------------------
(***************************************************************************)
(* FileManager (filemanager.cpp): downloads and uploaders that use the     *)
(* same file share one AsyncFile.  It is reopened when somebody needs more *)
(* access than it has, moved to another name while it is open, and dropped *)
(* when its last SharedFile is closed.  A SharedFile that is assigned to   *)
(* another lets go of its file without closing it.                         *)
(***************************************************************************)
CONSTANTS Owner,    \* those who hold a SharedFile
          Path,     \* path names
          File,     \* AsyncFile objects
          MayMove,  \* the pairs of names <<from, to>> a download may move a file between
          NoFile, NoPath

Access == {"read", "write"}
Modes  == {{"read"}, Access}     \* fio::read of the uploaders, fio::rw of the downloads

ASSUME MovesAssumption == MayMove \subseteq Path \X Path
ASSUME NoneAssumption  == NoFile \notin File /\ NoPath \notin Path

VARIABLES pointers_,  \* FileManager::pointers_
          name_,      \* AsyncFile::name_, the name under which it was opened last
          mode_,      \* AsyncFile::mode_, {} is fio::none
          pFile_,     \* SharedFile::pFile_
          asked       \* what the owner of a SharedFile believes it to be

filesVars == <<pointers_, name_, mode_, pFile_, asked>>

Nothing == [path |-> NoPath, mode |-> {}]

FilesTypeOK ==
  /\ pointers_ \in [Path -> File \cup {NoFile}]
  /\ name_ \in [File -> Path \cup {NoPath}]
  /\ mode_ \in [File -> SUBSET Access]
  /\ pFile_ \in [Owner -> File \cup {NoFile}]
  /\ asked \in [Owner -> [path : Path, mode : Modes] \cup {Nothing}]
  /\ \A o \in Owner : (pFile_[o] = NoFile) = (asked[o] = Nothing)

FilesInit ==
  /\ pointers_ = [p \in Path |-> NoFile]
  /\ name_ = [f \in File |-> NoPath]
  /\ mode_ = [f \in File |-> {}]
  /\ pFile_ = [o \in Owner |-> NoFile]
  /\ asked = [o \in Owner |-> Nothing]

\* The reference counts of the shared_ptr: who holds f, and is it held at all?
Holders(f) == {o \in Owner : pFile_[o] = f}
Free == {f \in File : Holders(f) = {} /\ \A p \in Path : pointers_[p] # f}

\* The SharedFile that FileManager::Open returns is assigned to the one of o, whose
\* destructor is never run and whose file the manager is not told of.
Take(o, f, path, mode) == /\ pFile_' = [pFile_ EXCEPT ![o] = f]
                          /\ asked' = [asked EXCEPT ![o] = [path |-> path, mode |-> mode]]

\* UploaderImp::HandleRequest opens whatever is asked for on a connection, one file
\* after the other; Download::Resume opens the file it may have already.
MayOpen(o, path, mode) ==
  pFile_[o] # NoFile =>
     /\ mode = asked[o].mode
     /\ mode = Access => path = asked[o].path /\ pointers_[path] = pFile_[o]

\* AsyncFile::Open of a closed file
Opened(f, path, mode) == /\ name_' = [name_ EXCEPT ![f] = path]
                         /\ mode_' = [mode_ EXCEPT ![f] = mode]

-----------------------------------------------------------------------------
\* FileManager::Open of a path that is not open
OpenNew(o, path, mode) ==
  /\ MayOpen(o, path, mode) /\ pointers_[path] = NoFile /\ Free # {}
  /\ LET f == CHOOSE f \in Free : TRUE
     IN /\ Opened(f, path, mode)
        /\ pointers_' = [pointers_ EXCEPT ![path] = f]
        /\ Take(o, f, path, mode)

\* FileManager::Open of a path that is open with the access that is needed
OpenShared(o, path, mode) ==
  /\ MayOpen(o, path, mode) /\ pointers_[path] # NoFile
  /\ mode \subseteq mode_[pointers_[path]]
  /\ Take(o, pointers_[path], path, mode)
  /\ UNCHANGED <<pointers_, name_, mode_>>

\* An opening that asks for more only when it asks for everything.
OpenMoreFault(o, path, mode) ==
  /\ MayOpen(o, path, mode) /\ pointers_[path] # NoFile
  /\ mode # mode_[pointers_[path]]
  /\ Opened(pointers_[path], path, mode) /\ Take(o, pointers_[path], path, mode)
  /\ UNCHANGED pointers_

\* FileManager::Open of a path that is open with less: the file is closed and
\* opened again, in the old mode if the new one is refused.  What could be opened
\* in a mode before is assumed to open in it again.
OpenMore(o, path, mode) ==
  /\ MayOpen(o, path, mode) /\ pointers_[path] # NoFile
  /\ LET f == pointers_[path]
     IN /\ ~(mode \subseteq mode_[f])
        /\ \/ Opened(f, path, mode) /\ Take(o, f, path, mode)
           \/ Opened(f, path, mode_[f]) /\ UNCHANGED <<pFile_, asked>>
  /\ UNCHANGED pointers_

\* FileManager::Transfer, called by Download::Copied after the copy: the open file
\* continues under another name, for everybody who has it, or stays where it was.
Transfer(from, to) ==
  /\ pointers_[from] # NoFile
  /\ \E o \in Holders(pointers_[from]) : asked[o] = [path |-> from, mode |-> Access]
  /\ LET f == pointers_[from]
     IN \/ /\ Opened(f, to, mode_[f])
           /\ asked' = [o \in Owner |-> IF o \in Holders(f) THEN [asked[o] EXCEPT !.path = to]
                                        ELSE asked[o]]
        \/ /\ Opened(f, from, mode_[f])
           /\ UNCHANGED asked
  /\ UNCHANGED <<pointers_, pFile_>>

\* The entry is erased whoever else holds the file.
CloseFault(o) ==
  /\ pFile_[o] # NoFile
  /\ pFile_' = [pFile_ EXCEPT ![o] = NoFile]
  /\ asked' = [asked EXCEPT ![o] = Nothing]
  /\ pointers_' = [pointers_ EXCEPT ![name_[pFile_[o]]] = NoFile]
  /\ UNCHANGED <<name_, mode_>>

\* unique() is asked before the pointer of the SharedFile is reset.
CloseEarlyFault(o) ==
  /\ pFile_[o] # NoFile
  /\ pFile_' = [pFile_ EXCEPT ![o] = NoFile]
  /\ asked' = [asked EXCEPT ![o] = Nothing]
  /\ LET path == name_[pFile_[o]]
     IN pointers_' = IF pointers_[path] # NoFile /\ Holders(pointers_[path]) = {}
                     THEN [pointers_ EXCEPT ![path] = NoFile]
                     ELSE pointers_
  /\ UNCHANGED <<name_, mode_>>

\* SharedFile::Close and FileManager::Close: the entry under the present name of
\* the file is erased when nobody holds its file any more.
Close(o) ==
  /\ pFile_[o] # NoFile
  /\ pFile_' = [pFile_ EXCEPT ![o] = NoFile]
  /\ asked' = [asked EXCEPT ![o] = Nothing]
  /\ LET path == name_[pFile_[o]]
     IN pointers_' = IF pointers_[path] # NoFile /\ Holders(pointers_[path]) \subseteq {o}
                     THEN [pointers_ EXCEPT ![path] = NoFile]
                     ELSE pointers_
  /\ UNCHANGED <<name_, mode_>>

FilesNext ==
  \/ \E o \in Owner : \/ Close(o)
                      \/ \E path \in Path, mode \in Modes :
                            \/ OpenNew(o, path, mode) \/ OpenShared(o, path, mode)
                            \/ OpenMore(o, path, mode)
  \/ \E move \in MayMove : Transfer(move[1], move[2])

FilesSpec == FilesInit /\ [][FilesNext]_filesVars

-----------------------------------------------------------------------------
\* Whoever opened a file keeps the access that was given, whatever others open,
\* close or move.
KeepsAccess == \A o \in Owner : pFile_[o] # NoFile => asked[o].mode \subseteq mode_[pFile_[o]]

\* The file of an owner is in the table, so that the next one who asks for it
\* shares it, and who needs more access reopens it for both.
InTable == \A o \in Owner : pFile_[o] # NoFile => \E p \in Path : pointers_[p] = pFile_[o]

\* What may become of the file f whose last owner lets go of it in this step.
Dropped(f) == \/ \A p \in Path : pointers_'[p] # f
              \/ \E o \in Holders(f) : pFile_'[o] # NoFile
              \/ \E p \in Path : pointers_'[p] = f /\ name_'[f] # p

\* The table drops a file with its last owner, unless that owner went on to another
\* file or the file was moved away from the name it has in the table.
DroppedWithLast ==
  [][\A f \in File : Holders(f) # {} /\ Holders(f)' = {} => Dropped(f)]_filesVars
=============================================================================
