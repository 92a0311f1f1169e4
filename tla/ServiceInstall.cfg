\* Any sequence of commands, with every option.
SPECIFICATION InstallSpec
CONSTANT Startups <- AllStartups
INVARIANTS InstallTypeOK SuccessIsComplete NextInstallWorks RefusedIsRemoved KeepsExisting
