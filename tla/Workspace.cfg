SPECIFICATION Spec
CONSTANTS
    p1 = p1
    p2 = p2
    Procs = {p1, p2}
    None = None
    Absent = Absent
    Broken = Broken
    Providers = {"ollama", "openai"}
    Models = {"local", "big", "small"}
    ProviderOf <- MCProviderOf
    BuiltInModel = "local"
    Globs = {"ok", "bad"}
    BadGlobs = {"bad"}
    CliDocs <- MCCliDocs
    RouterDocs <- MCRouterDocs
    Overrides <- MCOverrides
    OtelFlags <- MCOtelFlags
    Names = {"skill"}
    ToolCalls <- MCToolCalls
    MaxEdits = 2
    MaxCalls = 1
SYMMETRY Symmetry
INVARIANTS CheckedLoads PreferenceTightens SecretsIgnored SkillsOffered
CHECK_DEADLOCK FALSE
