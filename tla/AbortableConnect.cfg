SPECIFICATION Spec
CONSTANT MaxPrompts = 2
INVARIANTS TypeOK CancelExact ContextAlive OnlyConsentConnects
PROPERTY ConnectSettles
