SPECIFICATION Spec
INVARIANT InitOkMeansReady
