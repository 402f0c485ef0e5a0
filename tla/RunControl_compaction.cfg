SPECIFICATION Spec
CONSTANT Prompt = {p1, p2}
PROPERTY SteersSurviveCompaction
