CONSTANT BUCKET_ARRAY_SIZE = 10
SPECIFICATION Spec
INVARIANT TypeOK BitmapQueriesAgree ScanStopSound
PROPERTY StepsAreSlotSteps
