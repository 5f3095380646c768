SPECIFICATION Spec
CONSTANTS
  Apps = {a1, a2}
  Packages = {p1, p2, p3}
  p1 = p1
  p2 = p2
  p3 = p3
  Content <- Dalp
  Offers <- Asked
  FwVersions <- Fw
  ApiLevel = 1
  NoBlob = NoBlob
  a1 = a1
  a2 = a2
  None = None
  VmTypes = {"v1", "v2"}
  MaxApplets = 1
  Exts = {"dalp", "acp"}
  Faults = {"file", "copy", "download", "rename", "remove", "metadata",
            "removeOther", "removeOld", "removePending", "sync", "close", "unload"}
  Crashes = {"process", "power"}
  MaxMishaps = 2
INVARIANTS InstallKept UninstallKept OnePackageFile PackageKept
