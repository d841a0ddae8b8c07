CONSTANTS
  VMs = {v1, v2}
  TestTask = testTask
  UpdateTask = updateTask
  Tasks = {testTask, updateTask}
  Nobody = nobody
  NoReply = noReply
  NoHeir = noHeir
  MaxLen = 1
  MaxAlloc = 3
SPECIFICATION FairSpec
INVARIANTS
  TypeOK
  SelfFetchGetsNothing
PROPERTIES
  ImplementsRegister
  StorageIsReleased
