SPECIFICATION FairSpec
CONSTANTS
    template = template
    custom = custom
    x = x
    n1 = n1
    n2 = n2
    system = system
    SystemNamespace = system
    Kinds = {template, custom}
    Builtin = {template}
    Names = {x}
    Namespaces = {n1, n2}
    RuleSets <- Rules
    MaxEdits = 2
    MaxFaults = 1
INVARIANTS
    OnlyManagedOwned
PROPERTIES
    RulesTakeEffect
