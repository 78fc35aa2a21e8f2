CONSTANTS
    ToolView <- View
    Stems <- Starts
    Shapes <- ShopShapes
SPECIFICATION Spec
INVARIANTS
    NormalFormIsStable
    CompiledParentsFirst
    RefusedOnlyForWhatWasDropped
    ReadOnlyRuleFitsAnywhere
PROPERTIES
    ExtensionNeverRepairs
CHECK_DEADLOCK FALSE
