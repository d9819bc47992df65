SPECIFICATION FairSpec
CONSTANT MaxCalls = 3
INVARIANTS TypeOK SocketIsCurrent MicrophoneOff NotStranded
PROPERTY LostCallIsOver
CHECK_DEADLOCK FALSE
