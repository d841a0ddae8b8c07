CONSTANTS
  VMs = {v1, v2}
  UpdateTask = updateTask
  Tasks = {updateTask}
  Nobody = nobody
  NoReply = noReply
  Exception = exception
  Foreign = foreign
  NoHeir = noHeir
  Lines = {l1, l2}
  MaxText = 3
  MaxStart = 2
  ResultSize = 2
  MaxRestarts = 1
SPECIFICATION Spec
SYMMETRY Symmetry
INVARIANTS
  TypeOK
  OneChat
  FileFollowsChat
PROPERTIES
  ImplementsLog
  ChatOnlyGrows
