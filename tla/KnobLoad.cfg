SPECIFICATION Spec
INVARIANTS CharDeviceUnwound 
PROPERTIES  UnloadSilences
