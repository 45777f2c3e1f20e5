SPECIFICATION FairSpec
CONSTANTS
  router = router
  animals = animals
  main = main
  worker = worker
  get = get
  NoMethod = NoMethod
  nullptr = nullptr
  nobody = nobody
  Routers = {router, animals}
  Threads = {main, worker}
  Registrars = {main, worker}
  Sessions = {worker}
  Names = {"cat", "animals"}
  Methods = {get}
  Paths <- CatPaths
  Targets <- CatTargets
  Mounts <- AnimalMount
  Chains = {animals}
  EmplaceMoves = {FALSE}
  WriterBlocks = TRUE
  HandlersRegister = FALSE
  MaxRegistrations = 2
INVARIANTS RouterTypeOK RegistersWhatWasMeant RegistrationAlone
PROPERTIES ImplementsTable RegistrationReturns DispatchReturns
