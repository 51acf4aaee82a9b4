SPECIFICATION Spec
PROPERTIES TappedReleased
