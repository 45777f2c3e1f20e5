SPECIFICATION Spec
CONSTANTS
  router = router
  animals = animals
  main = main
  worker = worker
  get = get
  NoMethod = NoMethod
  nullptr = nullptr
  nobody = nobody
  Routers = {router, animals}
  Threads = {main, worker}
  Registrars = {main}
  Sessions = {worker}
  Names = {"cat", "animals"}
  Methods = {get}
  Paths <- OnePath
  Targets <- OneTarget
  Mounts <- NoMounts
  Chains = {}
  EmplaceMoves = {TRUE}
  WriterBlocks = FALSE
  HandlersRegister = FALSE
  MaxRegistrations = 2
INVARIANTS StorageNeverEmpty
