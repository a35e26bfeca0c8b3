---------------------------- MODULE MCFileStore -----------------------------
(* Instances of FileStore.                                                 *)
EXTENDS FileStore

OneSlot == Clients \X {1}
Slots   == Clients \X {1, 2}

EachItsUser == [c \in Clients |-> c]
OnePath     == {<<"/", "a">>}
SamePath    == [c \in Clients |-> OnePath]
Tree        == {<<"/", "a">>, <<"/", "d", "a">>, <<"/", "d", "b">>}
TwoWays     == {<<"/", "d", "a">>, <<"d", "a">>}
Spellings   == [c \in Clients |-> IF c = 9 THEN {<<"/", "d", "a">>} ELSE TwoWays]
OwnPaths    == [c \in Clients |-> IF c = 1 THEN OnePath ELSE Tree \ OnePath]

\* Which commands each client runs, and how many of them.
UserUploads == [c \in Clients |->
  IF c = 9 THEN {"remove", "mkdir", "userdel"} ELSE {"upload", "remove"}]
AllUpload      == [c \in Clients |-> {"upload"}]
UploadRemove   == [c \in Clients |->
  IF c = 1 THEN {"upload", "remove", "download", "quota"} ELSE {"upload", "remove"}]
UploadDownload == [c \in Clients |-> {"upload", "download"}]
TwoEach   == [c \in Clients |-> 2]
AdminOnce == [c \in Clients |-> IF c = 9 THEN 1 ELSE 2]

=============================================================================
