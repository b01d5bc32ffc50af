SPECIFICATION MeasurementsSpec
CONSTANTS
  Receivers = {r1, r2}
  NUM_ROUNDS = 2
  NUM_SAMPLES = 2
  MaxLate = 0
INVARIANTS SampleComplete RoundTimes AnswersNotified AnswersMeasured
PROPERTIES RunsComplete
CHECK_DEADLOCK FALSE
